---- MODULE Spec2Model ----
(***************************************************************************)
(* AGLStats (src/main.go): the cache-aside card resolver with its retrying *)
(* web fetcher, the performance-data resolver and loader, the pool         *)
(* flattening, the deck-strength scorer and the pool facts.                *)
(*                                                                         *)
(* Strings that the code takes apart (card names) are sequences of         *)
(* one-character strings; store keys are such sequences too.  Win rates    *)
(* are integers in thousandths (650 is 0.65).                              *)
(***************************************************************************)
EXTENDS Integers, Sequences, FiniteSets, TLC

VARIABLES
    db,          \* the badger store: a function from the keys present to their values
    dbBefore,    \* history: the store when the current operation began
    pc,          \* "idle" | "web" (inside getWebResponseString) | "panic" (checkError fired)
    inName,      \* getCard: the cardName argument as passed by the caller
    cardName,    \* getCard: cardName after the Alchemy designation is removed (the db key)
    dbMiss,      \* getCard: dbGet returned an error at line 305
    seenBefore,  \* history: an earlier getCard(inName) had returned a card when this one began
    uri,         \* getWebResponseString: the uri being fetched
    i,           \* getWebResponseString: the loop index of line 845
    err,         \* getWebResponseString: its err result variable
    tries,       \* history: outcomes of innerGetWebResponseString in this getWebResponseString
    webLog,      \* history: the getWebResponseString calls this operation has completed
    writes,      \* history: the dbSet calls of this operation, <<key, value>> each
    ret,         \* what the last operation returned to its caller
    resolved,    \* history: the names for which getCard has returned a card
    nCalls       \* operations begun so far (bounded by MaxCalls)

cardVars == <<db, dbBefore, pc, inName, cardName, dbMiss, seenBefore, uri, i, err, tries,
              webLog, writes, ret, resolved, nCalls>>

VARIABLES
    deck,            \* SealedDeck.Deck: a sequence of [Name, Count]
    sideboard,       \* SealedDeck.Sideboard: a sequence of [Name, Count]
    flattenedCards,  \* what SealedDeck.flatten returned: name -> DeckSlot
    flattenDone      \* flatten has been applied to deck and sideboard

flatVars == <<deck, sideboard, flattenedCards, flattenDone>>

VARIABLES
    poolCards,           \* PlayerPool.cards: a sequence of DeckSlot
    cardStrengthByDeck,  \* deckId -> (card name -> win rate), as loadCardPerformanceData returns it
    deckStrengths,       \* calculateStrength: deckId -> raw strength of that archetype
    strength,            \* calculateStrength: the integer it returns
    scored,              \* calculateStrength has been applied to poolCards
    prevDeckStrengths,   \* history: deckStrengths before the last copy was added
    lastAdded,           \* history: the card name a copy of which was added last
    nAdds                \* copies added so far (bounded by MaxAdds)

scoreVars == <<poolCards, cardStrengthByDeck, deckStrengths, strength, scored,
               prevDeckStrengths, lastAdded, nAdds>>

VARIABLES
    op,                \* the operation in progress or last run: "none" | "getCard" | "perf" | "pool"
    today,             \* time.Now(): an index into Dates
    pSetCode,          \* getCardPerformanceData: its setCode argument
    pDeckId,           \* getCardPerformanceData: its deckId argument
    forceDataRefresh,  \* getCardPerformanceData: its forceDataRefresh argument
    dbKey,             \* getCardPerformanceData: the key computed at line 393
    slept,             \* history: the time.Sleep calls of this operation, in order
    calledOn,          \* history: the value of today when this operation began
    earlier            \* history: the latest getCardPerformanceData call before this operation

perfVars == <<op, today, pSetCode, pDeckId, forceDataRefresh, dbKey, slept, calledOn,
              earlier>>

VARIABLES
    cardSets,     \* the Set fields of the cards resolved into the pools
    setsInPools,  \* the set codes k with setsInPools[k] == 1
    remote17,     \* the environment: set code -> the body the performance source sends for it
    lSet,         \* loadCardPerformanceData: position in allSeventeenLandsSets (line 351)
    lDeck,        \* loadCardPerformanceData: position in getDecks(setCode) (line 357)
    cpByDeck,     \* loadCardPerformanceData: deckId -> (card name -> win rate)
    loadDone,     \* loadCardPerformanceData has returned cpByDeck
    loadLog,      \* history: the getCardPerformanceData calls of the loop and their outcomes
    cpBefore      \* history: cpByDeck before the latest of these calls

loadVars == <<cardSets, setsInPools, remote17, lSet, lDeck, cpByDeck, loadDone, loadLog, cpBefore>>

VARIABLES
    losses,         \* the losses of the sheet row the pool was made from
    isAlive,        \* PlayerPool.isAlive
    facts,          \* PlayerPool.facts: fact name -> integer
    factsDone,      \* addFacts has been applied to the pool
    bombList,       \* the card names that are keys of bombList
    dudList,        \* the card names that are keys of dudList
    topCommonList   \* the card names that are keys of topCommonList

factVars == <<losses, isAlive, facts, factsDone, bombList, dudList, topCommonList>>

VARIABLES
    pools,       \* main: allPools, for each pool its isAlive and the cards resolved into it
    poolDecks,   \* the environment: for each pool the slots its deck flattens to, in map order
    stage,       \* main: the call it is at ("populate", "alive", "dead", "lists", "facts", "done")
    poolIx,      \* populatePools: the index of its loop (line 184)
    cardIx,      \* fetchCardData: position in allCards (line 214), 0 before the deck is fetched
    outputs,     \* the files created so far, in order, with their rows
    getCardLog   \* history: the getCard calls of fetchCardData and how each ended

runVars == <<pools, poolDecks, stage, poolIx, cardIx, outputs, getCardLog>>

VARIABLES
    manaCard,   \* getManaCost: the card record it is called on
    manaCost,   \* getManaCost: the string it returned
    manaDone    \* the getManaCost call has ended (returned or panicked)

manaVars == <<manaCard, manaCost, manaDone>>

vars == <<cardVars, perfVars, flatVars, scoreVars, loadVars, factVars, runVars, manaVars>>

----------------------------------------------------------------------------
(* Bounds and program constants *)

MaxCalls == 3

\* Operations begun where cards, performance data and pools share the store.
MaxTierCalls == 2

\* Raw entries of a pool (deck and sideboard together).
MaxEntries == 3

\* Copies added to a pool after it was first scored.
MaxAdds == 2

\* Archetypes for which performance data was loaded.
MaxPerfDecks == 4

deckStrengthCardsToConsider == 60

mtg2CDecks == <<"WU", "WB", "WR", "WG", "UB", "UR", "UG", "BR", "BG", "RG">>

mtg3CDecks == <<"WUB", "WUR", "WUG", "BRW", "GWB", "WRG", "UBR", "UBG", "RGU", "BRG">>

seventeenLands3CSets == { "SNC" }

webRetires == 3

webRetryMs == 500

sealedDeckPauseMs == 100

scryfallPauseMs == 75

seventeenLandsPauseMs == 1000

currentSet == "HBG"

allSeventeenLandsSets ==
    << "DOM", "M19", "RNA", "GRN", "WAR", "M20", "ELD", "THB", "IKO", "M21", "AKR",
       "ZNR", "KLR", "KHM", "STX", "AFR", "MID", "VOW", "NEO", "SNC", "HBG" >>

seventeenLandsDrawnThreshold == 100

\* Slots of a pool that addFacts is applied to.
MaxFactSlots == 2

\* getCardPerformanceData calls of one loadCardPerformanceData run that
\* return an error.
MaxLoadFailures == 1

\* The pools of the sheet in a run of main.
MaxRunPools == 2

\* The faces of a card record handed to getManaCost.
MaxFaces == 3

setPerformanceFormat == "PremierDraft"

\* The days on which the program runs, [year, month, day] each, in order.
Dates == << [year |-> 2022, month |-> 1, day |-> 11],
            [year |-> 2022, month |-> 11, day |-> 1] >>

\* Arguments handed to getCardPerformanceData directly.
PerfSets == { "HBG", "SNC" }

PerfDeckIds == { "WU", "WB" }

\* Response bodies the performance source may send: two card-rating lists,
\* the empty body and a body of white space.
RatingsA == "[Bolt:common:101:655,Opt:uncommon:50:580,Plains::100:600]"

RatingsB == "[Bolt:rare:26:550,Shock:mythic:17:700]"

RatingsC == "[Bolt:mythic:16:610,Shock:uncommon:51:520,Opt:rare:25:590]"

PerfBodies == { "", " ", RatingsA, RatingsB }

\* Pools on the sealed-deck site and the bodies it may send for them.
PoolUris == { "pool1" }

PoolBodies == { "{deck:[Bolt:1]}" }

\* Card names handed to getCard: plain ones and the same with the "A-" marker.
BaseNames == { <<"b">>, <<"A", "b">>, <<"b", "A">>, <<"b", "-">> }

AlchemyPrefix == <<"A", "-">>

CardNames == BaseNames \cup { AlchemyPrefix \o n : n \in BaseNames }

\* Response bodies the remote card source may send, and non-200 status codes.
Bodies == { "{set:hbg}", "{set:snc}" }

StatusCodes == { 404, 500 }

Nil == [kind |-> "nil"]

NoUri == [site |-> "none"]

NoRet == [kind |-> "none"]

NoCall == [kind |-> "none"]

----------------------------------------------------------------------------
(* strings.HasPrefix and strings.Trim, as getCard uses them *)

HasPrefix(s, prefix) ==
    Len(s) >= Len(prefix) /\ SubSeq(s, 1, Len(prefix)) = prefix

RECURSIVE TrimLeft(_, _)
TrimLeft(s, cutset) ==
    IF s # <<>> /\ Head(s) \in cutset THEN TrimLeft(Tail(s), cutset) ELSE s

RECURSIVE TrimRight(_, _)
TrimRight(s, cutset) ==
    IF s # <<>> /\ s[Len(s)] \in cutset
    THEN TrimRight(SubSeq(s, 1, Len(s) - 1), cutset)
    ELSE s

\* strings.Trim(s, cutset): every leading and trailing character that is in
\* cutset is removed.
Trim(s, cutset) == TrimRight(TrimLeft(s, cutset), cutset)

\* getCard, lines 299-302: remove the Alchemy designation.
stripAlchemy(name) ==
    IF HasPrefix(name, AlchemyPrefix) THEN Trim(name, {"A", "-"}) ELSE name

----------------------------------------------------------------------------
(* The durable store *)

dbHas(d, key) == key \in DOMAIN d

dbSetDropped(d, key, value) == d

\* dbSet, lines 827-838: txn.Set(key, value).
dbSet(d, key, value) ==
    [k \in DOMAIN d \cup {key} |-> IF k = key THEN value ELSE d[k]]

\* json.Unmarshal into a ScryfallCard: absent or malformed fields stay zero.
UnmarshalCard(json) ==
    CASE json = "{set:hbg}" -> [Set |-> "hbg"]
      [] json = "{set:snc}" -> [Set |-> "snc"]
      [] OTHER -> [Set |-> ""]

EmptyCard == [Set |-> ""]

\* One element of a CardPerformance list (the fields the program reads).
CardData(name, rarity, count, rate) ==
    [Name |-> name, Rarity |-> rarity, EverDrawnGameCount |-> count,
     EverDrawnWinRate |-> rate]

\* json.Unmarshal into a CardPerformance: a body that is not a list leaves
\* the list empty.
UnmarshalPerf(json) ==
    CASE json = RatingsA -> << CardData("Bolt", "common", 101, 655),
                               CardData("Opt", "uncommon", 50, 580),
                               CardData("Plains", "", 100, 600) >>
      [] json = RatingsB -> << CardData("Bolt", "rare", 26, 550),
                               CardData("Shock", "mythic", 17, 700) >>
      [] json = RatingsC -> << CardData("Bolt", "mythic", 16, 610),
                               CardData("Shock", "uncommon", 51, 520),
                               CardData("Opt", "rare", 25, 590) >>
      [] OTHER -> << >>

\* json.Unmarshal into a SealedDeck.
UnmarshalDeck(json) ==
    CASE json = "{deck:[Bolt:1]}" ->
             [Deck |-> << [Name |-> "Bolt", Count |-> 1] >>, Sideboard |-> << >>]
      [] OTHER -> [Deck |-> << >>, Sideboard |-> << >>]

\* strings.TrimSpace on the bodies of the model: a body of white space only
\* becomes the empty string, any other body has no white space at its ends.
TrimSpace(str) == IF str \in { "", " " } THEN "" ELSE str

----------------------------------------------------------------------------
(* getCardPerformanceData's store key and refresh condition *)

Digits == << "0", "1", "2", "3", "4", "5", "6", "7", "8", "9" >>

\* fmt's %d for a natural number: its decimal digits, no padding.
RECURSIVE Itoa(_)
Itoa(n) ==
    IF n < 10 THEN << Digits[n + 1] >>
    ELSE Itoa(n \div 10) \o << Digits[(n % 10) + 1] >>

dateKeyNoSet(set, date) == << >>

dateKeyEverySet(set, date) ==
    << "_" >> \o Itoa(date.year) \o << "_" >> \o Itoa(date.month)
              \o << "_" >> \o Itoa(date.day)

\* lines 388-391: the date part of the key, present for the current set only.
dateKey(set, date) ==
    IF set = currentSet
    THEN << "_" >> \o Itoa(date.year) \o << "_" >> \o Itoa(date.month)
                   \o << "_" >> \o Itoa(date.day)
    ELSE << >>

perfDbKeyWithoutDeck(set, archetype, date) == << "17lands_", set >> \o dateKey(set, date)

\* line 393: fmt.Sprintf("17lands_%s_%s%s", setCode, deckId, dateKey).
perfDbKey(set, archetype, date) == << "17lands_", set, "_", archetype >> \o dateKey(set, date)

\* dbGet, lines 800-824: the value under key, or "" with an error when the key
\* is absent.
dbGetValue(d, key) == IF dbHas(d, key) THEN d[key] ELSE ""

needsFetchIgnoresBlank(d, key, force) == ~dbHas(d, key) \/ force

needsFetchAlways(d, key, force) == TRUE

\* line 397: the condition under which the remote source is asked.
needsFetch(d, key, force) ==
    ~dbHas(d, key) \/ TrimSpace(dbGetValue(d, key)) = "" \/ force

\* seventeenLandsGet, lines 416-418: the uri of one archetype's ratings.
seventeenLandsUri(set, archetype, date) ==
    [site |-> "17lands", expansion |-> set, format |-> setPerformanceFormat,
     end_date |-> Itoa(date.year) \o << "-" >> \o Itoa(date.month)
                  \o << "-" >> \o Itoa(date.day),
     colors |-> archetype]

\* One time.Sleep call, as recorded in slept: its length and the number of
\* getWebResponseString calls the operation had completed before it.
Pause(ms, completed) == [ms |-> ms, after |-> completed]

----------------------------------------------------------------------------
(* scryfallGet's two lookups *)

scryfallBaseUri(name) == [site |-> "scryfall", exact |-> name, set |-> ""]

scryfallSetUri(name) == [site |-> "scryfall", exact |-> name, set |-> currentSet]

scryfallFirstUnscoped(name) == scryfallBaseUri(name)

\* line 332: the lookup tried first.
scryfallFirst(name) == scryfallSetUri(name)

\* line 334: the lookup tried when the first returned an error.
scryfallFallback(name) == scryfallBaseUri(name)

----------------------------------------------------------------------------
(* Initial state: a freshly opened, empty store and no call in progress *)

EmptyStore == [k \in {} |-> ""]

\* The state after main has opened the store d and before any operation.
CardInitOn(d) ==
    /\ db = d
    /\ dbBefore = db
    /\ pc = "idle"
    /\ inName = <<>>
    /\ cardName = <<>>
    /\ dbMiss = FALSE
    /\ seenBefore = FALSE
    /\ uri = NoUri
    /\ i = 0
    /\ err = Nil
    /\ tries = <<>>
    /\ webLog = <<>>
    /\ writes = <<>>
    /\ ret = NoRet
    /\ resolved = {}
    /\ nCalls = 0
    /\ op = "none"
    /\ today = 1
    /\ pSetCode = ""
    /\ pDeckId = ""
    /\ forceDataRefresh = FALSE
    /\ dbKey = << >>
    /\ slept = << >>
    /\ calledOn = 1
    /\ earlier = NoCall

CardInit == CardInitOn(EmptyStore)

\* History kept when an operation begins: the day, and the call that the
\* new operation follows if that was a getCardPerformanceData call.
opBegins ==
    /\ calledOn' = today
    /\ earlier' = IF op = "perf"
                  THEN [kind |-> "perf", set |-> pSetCode, deck |-> pDeckId,
                        day |-> calledOn, key |-> dbKey]
                  ELSE earlier

\* The locals of getCardPerformanceData while another operation runs.
perfLocalsReset ==
    /\ pSetCode' = ""
    /\ pDeckId' = ""
    /\ forceDataRefresh' = FALSE
    /\ dbKey' = << >>

\* The locals of getCard while another operation runs.
cardLocalsReset ==
    /\ inName' = << >>
    /\ cardName' = << >>
    /\ dbMiss' = FALSE
    /\ seenBefore' = FALSE

webLocalsReset ==
    /\ uri' = NoUri
    /\ i' = 0
    /\ err' = Nil
    /\ tries' = <<>>

----------------------------------------------------------------------------
(* getCard *)

\* getCard, lines 304-305 and 318-320: the card is in the store.
getCardHit(name) ==
    /\ pc = "idle"
    /\ nCalls < MaxCalls
    /\ dbHas(db, stripAlchemy(name))
    /\ nCalls' = nCalls + 1
    /\ dbBefore' = db
    /\ inName' = name
    /\ cardName' = stripAlchemy(name)
    /\ dbMiss' = FALSE
    /\ seenBefore' = (name \in resolved)
    /\ webLog' = <<>>
    /\ writes' = <<>>
    /\ ret' = [kind |-> "getCard",
               card |-> UnmarshalCard(db[stripAlchemy(name)]), err |-> Nil]
    /\ resolved' = resolved \cup {name}
    /\ webLocalsReset
    /\ op' = "getCard"
    /\ opBegins
    /\ slept' = << >>
    /\ perfLocalsReset
    /\ UNCHANGED <<db, pc, today>>

\* getCard, lines 304-308, and scryfallGet, lines 328-332: the card is not in
\* the store; the first remote lookup begins.
getCardMiss(name) ==
    /\ pc = "idle"
    /\ nCalls < MaxCalls
    /\ ~dbHas(db, stripAlchemy(name))
    /\ nCalls' = nCalls + 1
    /\ dbBefore' = db
    /\ inName' = name
    /\ cardName' = stripAlchemy(name)
    /\ dbMiss' = TRUE
    /\ seenBefore' = (name \in resolved)
    /\ webLog' = <<>>
    /\ writes' = <<>>
    /\ ret' = NoRet
    /\ pc' = "web"
    /\ uri' = scryfallFirst(stripAlchemy(name))
    /\ i' = 0
    /\ err' = Nil
    /\ tries' = <<>>
    /\ op' = "getCard"
    /\ opBegins
    /\ slept' = << >>
    /\ perfLocalsReset
    /\ UNCHANGED <<db, resolved, today>>

getCardFailStoresEmpty(log) ==
    /\ db' = dbSet(db, cardName, "")
    /\ writes' = Append(writes, <<cardName, "">>)
    /\ ret' = [kind |-> "getCard", card |-> EmptyCard,
               err |-> [kind |-> "notfound", name |-> cardName]]
    /\ pc' = "idle"
    /\ webLog' = log
    /\ webLocalsReset
    /\ UNCHANGED resolved

\* getCard, lines 309-311: scryfallGet returned an error; nothing is stored.
getCardFail(log) ==
    /\ ret' = [kind |-> "getCard", card |-> EmptyCard,
               err |-> [kind |-> "notfound", name |-> cardName]]
    /\ pc' = "idle"
    /\ webLog' = log
    /\ webLocalsReset
    /\ UNCHANGED <<db, writes, resolved>>

\* getCard, lines 313-320: store the payload and return the parsed card.
getCardStore(rawJson, log) ==
    /\ db' = dbSet(db, cardName, rawJson)
    /\ writes' = Append(writes, <<cardName, rawJson>>)
    /\ ret' = [kind |-> "getCard", card |-> UnmarshalCard(rawJson), err |-> Nil]
    /\ resolved' = resolved \cup {inName}
    /\ pc' = "idle"
    /\ webLog' = log
    /\ webLocalsReset

\* scryfallGet, lines 332-342, entered when getWebResponseString returns
\* (rawJson, e) with sl the sleeps so far: fall back to the unscoped lookup
\* after a failed first lookup, otherwise pause and return to getCard.
scryfallGetResume(rawJson, e, log, sl) ==
    IF Len(log) = 1 /\ e # Nil
    THEN /\ uri' = scryfallFallback(cardName)
         /\ i' = 0
         /\ err' = Nil
         /\ tries' = <<>>
         /\ webLog' = log
         /\ slept' = sl
         /\ UNCHANGED <<db, pc, writes, ret, resolved>>
    ELSE /\ slept' = Append(sl, Pause(scryfallPauseMs, Len(log)))
         /\ IF e # Nil THEN getCardFail(log) ELSE getCardStore(rawJson, log)

----------------------------------------------------------------------------
(* getCardPerformanceData and seventeenLandsGet *)

\* getCardPerformanceData, lines 395-397 and 409-411: the stored value is
\* used; it is parsed and returned.
getCardPerformanceDataHit(set, archetype, force) ==
    /\ pc = "idle"
    /\ nCalls < MaxCalls
    /\ ~needsFetch(db, perfDbKey(set, archetype, Dates[today]), force)
    /\ nCalls' = nCalls + 1
    /\ dbBefore' = db
    /\ op' = "perf"
    /\ opBegins
    /\ pSetCode' = set
    /\ pDeckId' = archetype
    /\ forceDataRefresh' = force
    /\ dbKey' = perfDbKey(set, archetype, Dates[today])
    /\ webLog' = <<>>
    /\ writes' = <<>>
    /\ slept' = << >>
    /\ ret' = [kind |-> "perf",
               cp |-> UnmarshalPerf(db[perfDbKey(set, archetype, Dates[today])]),
               err |-> Nil]
    /\ webLocalsReset
    /\ cardLocalsReset
    /\ UNCHANGED <<db, pc, resolved, today>>

\* getCardPerformanceData, lines 395-398, and seventeenLandsGet, lines
\* 416-420: the remote source is asked.
getCardPerformanceDataMiss(set, archetype, force) ==
    /\ pc = "idle"
    /\ nCalls < MaxCalls
    /\ needsFetch(db, perfDbKey(set, archetype, Dates[today]), force)
    /\ nCalls' = nCalls + 1
    /\ dbBefore' = db
    /\ op' = "perf"
    /\ opBegins
    /\ pSetCode' = set
    /\ pDeckId' = archetype
    /\ forceDataRefresh' = force
    /\ dbKey' = perfDbKey(set, archetype, Dates[today])
    /\ webLog' = <<>>
    /\ writes' = <<>>
    /\ slept' = << >>
    /\ ret' = NoRet
    /\ pc' = "web"
    /\ uri' = seventeenLandsUri(set, archetype, Dates[today])
    /\ i' = 0
    /\ err' = Nil
    /\ tries' = <<>>
    /\ cardLocalsReset
    /\ UNCHANGED <<db, resolved, today>>

perfFailReturnsStored(log) ==
    /\ ret' = [kind |-> "perf",
               cp |-> IF dbHas(db, dbKey) THEN UnmarshalPerf(db[dbKey]) ELSE << >>,
               err |-> Nil]
    /\ pc' = "idle"
    /\ webLog' = log
    /\ webLocalsReset
    /\ UNCHANGED <<db, writes, resolved>>

\* getCardPerformanceData, lines 399-401: seventeenLandsGet returned an
\* error; the empty list and an error are returned, nothing is stored.
perfFail(log) ==
    /\ ret' = [kind |-> "perf", cp |-> << >>,
               err |-> [kind |-> "noperf", deckId |-> pDeckId]]
    /\ pc' = "idle"
    /\ webLog' = log
    /\ webLocalsReset
    /\ UNCHANGED <<db, writes, resolved>>

\* getCardPerformanceData, lines 404-411: store the payload as fetched, then
\* parse and return it.
perfStore(rawJson, log) ==
    /\ db' = dbSet(db, dbKey, rawJson)
    /\ writes' = Append(writes, <<dbKey, rawJson>>)
    /\ ret' = [kind |-> "perf", cp |-> UnmarshalPerf(rawJson), err |-> Nil]
    /\ pc' = "idle"
    /\ webLog' = log
    /\ webLocalsReset
    /\ UNCHANGED resolved

seventeenLandsGetResumeWithoutPause(rawJson, e, log, sl) ==
    /\ slept' = sl
    /\ IF e # Nil THEN perfFail(log) ELSE perfStore(rawJson, log)

\* seventeenLandsGet, lines 420-429, entered when getWebResponseString
\* returns (rawJson, e): pause, then return to getCardPerformanceData.
seventeenLandsGetResume(rawJson, e, log, sl) ==
    /\ slept' = Append(sl, Pause(seventeenLandsPauseMs, Len(log)))
    /\ IF e # Nil THEN perfFail(log) ELSE perfStore(rawJson, log)

----------------------------------------------------------------------------
(* getCardsFromPool *)

\* getCardsFromPool, lines 193-194: the pool's page is asked for.
getCardsFromPool(poolUri) ==
    /\ pc = "idle"
    /\ nCalls < MaxCalls
    /\ nCalls' = nCalls + 1
    /\ dbBefore' = db
    /\ op' = "pool"
    /\ opBegins
    /\ webLog' = <<>>
    /\ writes' = <<>>
    /\ slept' = << >>
    /\ ret' = NoRet
    /\ pc' = "web"
    /\ uri' = [site |-> "sealeddeck", pool |-> poolUri]
    /\ i' = 0
    /\ err' = Nil
    /\ tries' = <<>>
    /\ cardLocalsReset
    /\ perfLocalsReset
    /\ UNCHANGED <<db, resolved, today>>

\* getCardsFromPool, lines 195-204, entered when getWebResponseString
\* returns (rawJson, e): checkError panics on an error; otherwise the deck is
\* parsed, the pause is taken and the deck is returned.
getCardsFromPoolResume(rawJson, e, log, sl) ==
    IF e # Nil
    THEN /\ pc' = "panic"
         /\ webLog' = log
         /\ slept' = sl
         /\ UNCHANGED <<db, uri, i, err, tries, writes, ret, resolved>>
    ELSE /\ ret' = [kind |-> "pool", deck |-> UnmarshalDeck(rawJson)]
         /\ slept' = Append(sl, Pause(sealedDeckPauseMs, Len(log)))
         /\ pc' = "idle"
         /\ webLog' = log
         /\ webLocalsReset
         /\ UNCHANGED <<db, writes, resolved>>

----------------------------------------------------------------------------
(* getWebResponseString and innerGetWebResponseString *)

StatusError(code, u) == [kind |-> "status", code |-> code, uri |-> u]

\* One completed getWebResponseString call, as recorded in webLog.
WebCall(u, r, e, outcomes) == [uri |-> u, r |-> r, err |-> e, tries |-> outcomes]

loopContinuesInclusive(next) == next <= webRetires

\* getWebResponseString, line 845: the loop condition after i++.
loopContinues(next) == next < webRetires

\* The bodies the site of uri u may send with status 200.
ResponseBodies(u) ==
    CASE u.site = "scryfall" -> Bodies
      [] u.site = "17lands" -> PerfBodies
      [] u.site = "sealeddeck" -> PoolBodies
      [] OTHER -> {}

\* getWebResponseString returns (r, e) to the function that called it, with
\* log the completed calls and sl the sleeps of the operation so far.
webReturn(r, e, log, sl) ==
    CASE op = "getCard" -> scryfallGetResume(r, e, log, sl)
      [] op = "perf" -> seventeenLandsGetResume(r, e, log, sl)
      [] op = "pool" -> getCardsFromPoolResume(r, e, log, sl)
      [] OTHER -> FALSE

\* What an operation in progress leaves alone while the fetcher runs.
webFrame ==
    UNCHANGED <<dbBefore, inName, cardName, dbMiss, seenBefore, nCalls,
                op, today, pSetCode, pDeckId, forceDataRefresh, dbKey, calledOn, earlier>>

\* innerGetWebResponseString returns (body, nil): status 200 and the body was
\* read.  getWebResponseString returns it at once (lines 848-850).
innerOk(body) ==
    /\ pc = "web"
    /\ body \in ResponseBodies(uri)
    /\ webReturn(body, Nil,
           Append(webLog, WebCall(uri, body, Nil,
                                  Append(tries, [kind |-> "ok", body |-> body]))),
           slept)
    /\ webFrame

\* innerGetWebResponseString returns ("", err) for a status other than 200
\* (lines 865-868).  getWebResponseString sleeps and iterates, and after the
\* last iteration returns ("", err) (lines 852-857).
innerStatus(code) ==
    /\ pc = "web"
    /\ LET e == StatusError(code, uri)
           outcomes == Append(tries, [kind |-> "status", err |-> e])
           sl == Append(slept, Pause(webRetryMs, Len(webLog)))
       IN  IF loopContinues(i + 1)
           THEN /\ i' = i + 1
                /\ err' = e
                /\ tries' = outcomes
                /\ slept' = sl
                /\ UNCHANGED <<db, pc, uri, webLog, writes, ret, resolved>>
           ELSE webReturn("", e, Append(webLog, WebCall(uri, "", e, outcomes)), sl)
    /\ webFrame

\* checkError, lines 877-881, on a non-nil error: the process panics.
checkErrorPanics(outcome) ==
    /\ pc' = "panic"
    /\ tries' = Append(tries, outcome)
    /\ UNCHANGED <<db, dbBefore, inName, cardName, dbMiss, seenBefore, uri, i, err,
                   webLog, writes, ret, resolved, nCalls, perfVars>>

\* innerGetWebResponseString, lines 862-863: http.Get itself fails.
innerTransportFail ==
    /\ pc = "web"
    /\ checkErrorPanics([kind |-> "transport"])

\* innerGetWebResponseString, lines 870-871: reading the body fails.
innerReadFail ==
    /\ pc = "web"
    /\ checkErrorPanics([kind |-> "read"])

\* main, lines 92-98: the program is run again on the same durable store.
Restart ==
    /\ pc = "panic"
    /\ pc' = "idle"
    /\ webLocalsReset
    /\ webLog' = <<>>
    /\ writes' = <<>>
    /\ ret' = NoRet
    /\ slept' = << >>
    /\ UNCHANGED <<db, dbBefore, inName, cardName, dbMiss, seenBefore, resolved, nCalls,
                   op, today, pSetCode, pDeckId, forceDataRefresh, dbKey, calledOn,
                   earlier>>

\* The clock reaches the next day between two operations.
DayPasses ==
    /\ pc = "idle"
    /\ today < Len(Dates)
    /\ today' = today + 1
    /\ UNCHANGED <<cardVars, op, pSetCode, pDeckId, forceDataRefresh, dbKey, slept,
                   calledOn, earlier>>

----------------------------------------------------------------------------
(* SealedDeck.flatten *)

EmptyMap == [k \in {} |-> 0]

MapSet(m, key, value) ==
    [k \in DOMAIN m \cup {key} |-> IF k = key THEN value ELSE m[k]]

DeckSlot(amount, name) == [amount |-> amount, cardName |-> name]

\* Names and counts of the raw entries sealeddeck.tech may send.
PoolNames == { "Bolt", "Plains" }

PoolCounts == 0 .. 2

RawEntries == [Name : PoolNames, Count : PoolCounts]

RECURSIVE SeqsUpTo(_, _)
SeqsUpTo(S, n) ==
    IF n = 0 THEN { <<>> }
    ELSE LET shorter == SeqsUpTo(S, n - 1)
         IN  shorter \cup { Append(q, x) : q \in shorter, x \in S }

flattenSeenOverwrites(value, card) == DeckSlot(card.Count, card.Name)

\* line 267: the name is already in the map.
flattenSeen(value, card) == DeckSlot(value.amount + card.Count, card.Name)

\* line 269: first occurrence of the name.
flattenNew(card) == DeckSlot(card.Count, card.Name)

\* lines 264-271: the loop over allCards.
RECURSIVE flattenLoop(_, _)
flattenLoop(allCards, flattened) ==
    IF allCards = <<>> THEN flattened
    ELSE LET card == Head(allCards)
         IN  flattenLoop(Tail(allCards),
                 IF card.Name \in DOMAIN flattened
                 THEN MapSet(flattened, card.Name,
                             flattenSeen(flattened[card.Name], card))
                 ELSE MapSet(flattened, card.Name, flattenNew(card)))

\* SealedDeck.flatten, lines 258-274.
flatten(d, sb) == flattenLoop(d \o sb, EmptyMap)

FlatIdle ==
    /\ deck = <<>>
    /\ sideboard = <<>>
    /\ flattenedCards = EmptyMap
    /\ flattenDone = FALSE

FlatInit ==
    /\ deck \in SeqsUpTo(RawEntries, MaxEntries)
    /\ sideboard \in SeqsUpTo(RawEntries, MaxEntries)
    /\ Len(deck) + Len(sideboard) <= MaxEntries
    /\ flattenedCards = EmptyMap
    /\ flattenDone = FALSE

\* fetchCardData, line 211: allCards := deck.flatten()
Flatten ==
    /\ ~flattenDone
    /\ flattenedCards' = flatten(deck, sideboard)
    /\ flattenDone' = TRUE
    /\ UNCHANGED <<deck, sideboard>>

----------------------------------------------------------------------------
(* PlayerPool.calculateStrength *)

\* getDecks, lines 650-658.
getDecks(setCode) ==
    mtg2CDecks \o (IF setCode \in seventeenLands3CSets THEN mtg3CDecks ELSE <<>>)

CardStrength(name, s) == [cardName |-> name, strength |-> s]

\* line 600: indexing the map by a deckId it does not hold gives a nil map.
strengthMapOf(byDeck, deckId) ==
    IF deckId \in DOMAIN byDeck THEN byDeck[deckId] ELSE EmptyMap

slotEntriesOnePerSlot(c, strengthMap) ==
    IF c.amount > 0
    THEN << CardStrength(c.cardName,
               IF c.cardName \in DOMAIN strengthMap THEN strengthMap[c.cardName] ELSE 0) >>
    ELSE <<>>

\* lines 606-614: one entry per copy of the slot, 0 for a name the map lacks.
slotEntries(c, strengthMap) ==
    [k \in 1 .. c.amount |->
        IF c.cardName \in DOMAIN strengthMap
        THEN CardStrength(c.cardName, strengthMap[c.cardName])
        ELSE CardStrength(c.cardName, 0)]

\* lines 604-616: the loop over pool.cards.
RECURSIVE expandCards(_, _)
expandCards(cards, strengthMap) ==
    IF cards = <<>> THEN <<>>
    ELSE slotEntries(Head(cards), strengthMap) \o expandCards(Tail(cards), strengthMap)

\* line 620: the less function of the sort of cardStrengths.
strongerFirst(a, b) == a.strength > b.strength

weakerFirst(a, b) == a.strength < b.strength

\* sort.Slice(q, less) orders q so that no element is less than one before
\* it.  It does not specify the order of elements neither of which is less
\* than the other; calculateStrength reads only the compared field.
sortCardStrengthsAscending(cardStrengths) == SortSeq(cardStrengths, weakerFirst)

\* lines 619-621.
sortCardStrengths(cardStrengths) == SortSeq(cardStrengths, strongerFirst)

\* lines 624-627.
maxIndexOf(cardStrengths) ==
    IF Len(cardStrengths) < deckStrengthCardsToConsider
    THEN Len(cardStrengths)
    ELSE deckStrengthCardsToConsider

\* lines 628-630: the sum of cardStrengths[0:maxIndex].
RECURSIVE sumStrengths(_, _)
sumStrengths(cardStrengths, maxIndex) ==
    IF maxIndex = 0 THEN 0
    ELSE cardStrengths[maxIndex].strength + sumStrengths(cardStrengths, maxIndex - 1)

\* lines 599-632, one iteration: the raw strength of one archetype.
deckStrengthOf(cards, strengthMap) ==
    LET cardStrengths == sortCardStrengths(expandCards(cards, strengthMap))
    IN  sumStrengths(cardStrengths, maxIndexOf(cardStrengths))

SeqToSet(q) == { q[k] : k \in 1 .. Len(q) }

\* lines 596-632: deckStrengths after the loop over getDecks(currentSet).
deckStrengthsOf(cards, byDeck) ==
    [deckId \in SeqToSet(getDecks(currentSet)) |->
        deckStrengthOf(cards, strengthMapOf(byDeck, deckId))]

candidatesUnsorted(q) == q

\* line 640: the less function of the sort of v.
largerFirst(a, b) == a > b

\* lines 639-641.
sortCandidates(q) == SortSeq(q, largerFirst)

Reverse(q) == [k \in 1 .. Len(q) |-> q[Len(q) + 1 - k]]

Rotate(q, n) == [k \in 1 .. Len(q) |-> q[((k - 1 + n) % Len(q)) + 1]]

\* Orders in which range may walk the keys of deckStrengths (line 636; Go
\* leaves the order of a map open): the order of getDecks and its reverse,
\* each as it is and begun at two other places.
OrdersOf(decks) ==
    { Rotate(decks, n) : n \in { 0, 1, 5 } }
       \cup { Rotate(Reverse(decks), n) : n \in { 0, 1, 5 } }

IterationOrders == OrdersOf(getDecks(currentSet))

\* lines 635-641: v holds len(deckStrengths) zeros, then the strengths in
\* the order the map is walked in, and is then sorted.
candidatesWithoutPlaceholders(strengths, order) ==
    sortCandidates([k \in 1 .. Len(order) |-> strengths[order[k]]])

candidatesInMapOrder(strengths, order) == [k \in 1 .. Len(order) |-> strengths[order[k]]]

candidates(strengths, order) ==
    sortCandidates([k \in 1 .. Len(order) |-> 0]
                   \o [k \in 1 .. Len(order) |-> strengths[order[k]]])

\* int(x) of a float64 x: the fraction is discarded (toward zero).  x is
\* given in ten-thousandths.
intOf(x) == IF x >= 0 THEN x \div 10000 ELSE -((-x) \div 10000)

\* lines 644-646: (v[0] + v[1]*0.8 + v[2]*0.4) * 100.0, converted by int().
\* Strengths are in thousandths, the weights in tenths.
weightedTopThree(v) == intOf((v[1] * 10 + v[2] * 8 + v[3] * 4) * 100)

\* lines 634-647: the integer calculateStrength returns, given deckStrengths.
combineTopThree(strengths, order) == weightedTopThree(candidates(strengths, order))

----------------------------------------------------------------------------
(* Pools and performance data the scorer is applied to *)

\* Amounts of a slot: absent copies, a few, and enough to pass the 60 cards
\* that one archetype counts.
SlotAmounts == { 0, 1, 60 }

\* name -> win rate maps as loadCardPerformanceData builds them, the win
\* rates (fractions of games won) in thousandths: a card of the pool may be
\* missing from the map, and a rarely drawn card has win rate 0.
PerfMaps ==
    { [n \in {"Bolt", "Plains"} |-> IF n = "Bolt" THEN 655 ELSE 0],
      [n \in {"Bolt", "Plains"} |-> IF n = "Bolt" THEN 550 ELSE 655],
      [n \in {"Plains"} |-> 550] }

\* Pools as fetchCardData builds them: one slot per name, in any order.
Pools ==
    { q \in SeqsUpTo([amount : SlotAmounts, cardName : PoolNames], 2) :
        \A a, b \in 1 .. Len(q) : q[a].cardName = q[b].cardName => a = b }

\* The archetypes whose data loaded are the first k of getDecks(currentSet).
PerfTables ==
    UNION { [ { getDecks(currentSet)[j] : j \in 1 .. k } -> PerfMaps ] :
              k \in 0 .. MaxPerfDecks }

ScoreIdle ==
    /\ poolCards = <<>>
    /\ cardStrengthByDeck = EmptyMap
    /\ deckStrengths = EmptyMap
    /\ strength = 0
    /\ scored = FALSE
    /\ prevDeckStrengths = EmptyMap
    /\ lastAdded = ""
    /\ nAdds = 0

ScoreInit ==
    /\ poolCards \in Pools
    /\ cardStrengthByDeck \in PerfTables
    /\ deckStrengths = EmptyMap
    /\ strength = 0
    /\ scored = FALSE
    /\ prevDeckStrengths = EmptyMap
    /\ lastAdded = ""
    /\ nAdds = 0

\* PlayerPool.calculateStrength, lines 594-647, as addFacts calls it (line 565).
calculateStrength ==
    /\ ~scored
    /\ deckStrengths' = deckStrengthsOf(poolCards, cardStrengthByDeck)
    /\ \E order \in IterationOrders : strength' = combineTopThree(deckStrengths', order)
    /\ scored' = TRUE
    /\ UNCHANGED <<poolCards, cardStrengthByDeck, prevDeckStrengths, lastAdded, nAdds>>

\* The pool with one more copy of name: in its slot, or in a new slot.
withCopy(cards, name) ==
    IF \E k \in 1 .. Len(cards) : cards[k].cardName = name
    THEN [k \in 1 .. Len(cards) |->
            IF cards[k].cardName = name
            THEN DeckSlot(cards[k].amount + 1, name)
            ELSE cards[k]]
    ELSE Append(cards, DeckSlot(1, name))

\* A scored pool gets one more copy of a card and is scored again.
AddCopy(name) ==
    /\ scored
    /\ nAdds < MaxAdds
    /\ nAdds' = nAdds + 1
    /\ lastAdded' = name
    /\ poolCards' = withCopy(poolCards, name)
    /\ prevDeckStrengths' = deckStrengths
    /\ deckStrengths' = deckStrengthsOf(poolCards', cardStrengthByDeck)
    /\ \E order \in IterationOrders : strength' = combineTopThree(deckStrengths', order)
    /\ UNCHANGED <<cardStrengthByDeck, scored>>

----------------------------------------------------------------------------
(* loadCardPerformanceData *)

getCardPrevalenceThresholdRoundedUp(rarity) ==
    CASE rarity = "uncommon" -> (seventeenLandsDrawnThreshold + 1) \div 2
      [] rarity = "rare" -> (seventeenLandsDrawnThreshold + 3) \div 4
      [] rarity = "mythic" -> (seventeenLandsDrawnThreshold + 5) \div 6
      [] OTHER -> seventeenLandsDrawnThreshold

\* getCardPrevalenceThreshold, lines 724-736.
getCardPrevalenceThreshold(rarity) ==
    CASE rarity = "uncommon" -> seventeenLandsDrawnThreshold \div 2
      [] rarity = "rare" -> seventeenLandsDrawnThreshold \div 4
      [] rarity = "mythic" -> seventeenLandsDrawnThreshold \div 6
      [] OTHER -> seventeenLandsDrawnThreshold

gihValueInclusive(cardData) ==
    IF cardData.EverDrawnGameCount >= getCardPrevalenceThreshold(cardData.Rarity)
    THEN cardData.EverDrawnWinRate
    ELSE 0

\* lines 368-372: the value recorded for one card.
gihValue(cardData) ==
    IF cardData.EverDrawnGameCount > getCardPrevalenceThreshold(cardData.Rarity)
    THEN cardData.EverDrawnWinRate
    ELSE 0

\* lines 366-373: gihByCard after the loop over the rest of cp, from map m.
RECURSIVE gihLoop(_, _)
gihLoop(cp, m) ==
    IF cp = << >> THEN m
    ELSE gihLoop(Tail(cp), MapSet(m, Head(cp).Name, gihValue(Head(cp))))

gihByCard(cp) == gihLoop(cp, EmptyMap)

recordMerged(byDeck, archetype, gih) ==
    MapSet(byDeck, archetype,
           [name \in DOMAIN strengthMapOf(byDeck, archetype) \cup DOMAIN gih |->
               IF name \in DOMAIN gih THEN gih[name] ELSE byDeck[archetype][name]])

\* line 375: cpByDeck[deckId] = gihByCard.
record(byDeck, archetype, gih) == MapSet(byDeck, archetype, gih)

\* line 89.
leagueIsMonoSet == FALSE

\* strings.ToUpper on the set codes scryfall gives (lower case).
ToUpper(s) ==
    CASE s = "hbg" -> "HBG"
      [] s = "snc" -> "SNC"
      [] s = "neo" -> "NEO"
      [] s = "xln" -> "XLN"
      [] OTHER -> s

\* The Set fields of the cards of the loaded pools: no card at all, cards of
\* other sets only, of the current set too, and of a set (xln) that the
\* performance source has no data of.
CardSetChoices ==
    { {}, {"snc"}, {"hbg", "snc"}, {"neo", "snc"}, {"neo", "xln"} }

registeredSetsWithNeo(sets) ==
    {currentSet, "NEO"} \cup (IF ~leagueIsMonoSet THEN { ToUpper(s) : s \in sets } ELSE {})

\* setsInPools after populatePools: main, line 101, registers the current
\* set, and fetchCardData, lines 219-221, the set of every resolved card.
registeredSets(sets) ==
    {currentSet} \cup (IF ~leagueIsMonoSet THEN { ToUpper(s) : s \in sets } ELSE {})

\* The values of setsInPools when loadCardPerformanceData begins; "XLN" is
\* not one of allSeventeenLandsSets.
ObservedChoices == { registeredSets(sets) : sets \in CardSetChoices }

\* What the performance source holds for each set (one body for all of the
\* set's archetypes).
Worlds ==
    { [NEO |-> RatingsA, SNC |-> RatingsC, HBG |-> RatingsB],
      [NEO |-> RatingsB, SNC |-> RatingsA, HBG |-> RatingsC],
      [NEO |-> RatingsC, SNC |-> RatingsB, HBG |-> RatingsA],
      [NEO |-> RatingsA, SNC |-> RatingsA, HBG |-> RatingsA] }

\* The store an earlier run left: a rating list of another set, and a body of
\* white space under today's key of the current set.
CachedStore ==
    dbSet(dbSet(EmptyStore, perfDbKey("SNC", "WU", Dates[1]), RatingsA),
          perfDbKey(currentSet, "WU", Dates[1]), " ")

LoadStores == { EmptyStore, CachedStore }

LoadIdle ==
    /\ cardSets = {}
    /\ setsInPools = {}
    /\ remote17 = << >>
    /\ lSet = 1
    /\ lDeck = 1
    /\ cpByDeck = EmptyMap
    /\ loadDone = FALSE
    /\ loadLog = << >>
    /\ cpBefore = EmptyMap

\* main, line 101, and fetchCardData, lines 219-221: the current set and the
\* sets of the pools' cards are registered; then loadCardPerformanceData
\* begins (line 348).
LoadInit ==
    /\ cardSets \in CardSetChoices
    /\ setsInPools = registeredSets(cardSets)
    /\ remote17 \in Worlds
    /\ lSet = 1
    /\ lDeck = 1
    /\ cpByDeck = EmptyMap
    /\ loadDone = FALSE
    /\ loadLog = << >>
    /\ cpBefore = EmptyMap

\* The loop is at a set (line 351) and has not returned.
loadAtSet == pc = "idle" /\ ~loadDone /\ lSet <= Len(allSeventeenLandsSets)

\* The loop is at a (set, archetype) pair of an observed set (line 357).
loadAtPair == loadAtSet /\ allSeventeenLandsSets[lSet] \in setsInPools

loadSetCode == allSeventeenLandsSets[lSet]

loadDeckId == getDecks(loadSetCode)[lDeck]

loadKey == perfDbKey(loadSetCode, loadDeckId, Dates[today])

\* The next iteration of the loops of lines 351 and 357.
loadAdvance ==
    IF lDeck < Len(getDecks(loadSetCode))
    THEN lSet' = lSet /\ lDeck' = lDeck + 1
    ELSE lSet' = lSet + 1 /\ lDeck' = 1

\* One getCardPerformanceData call of the loop, as recorded in loadLog.
LoadCall(ok, rawJson) ==
    [set |-> loadSetCode, deck |-> loadDeckId, ok |-> ok, raw |-> rawJson]

\* lines 351-352: the set is not one of the observed sets.
loadSetSkipped ==
    /\ loadAtSet
    /\ allSeventeenLandsSets[lSet] \notin setsInPools
    /\ lSet' = lSet + 1
    /\ UNCHANGED <<cardSets, setsInPools, remote17, lDeck, cpByDeck, loadDone, loadLog, cpBefore>>
    /\ UNCHANGED <<cardVars, perfVars>>

\* lines 358-375 where getCardPerformanceData(db, setCode, deckId, false)
\* finds a usable stored value (its lines 395-397 and 409-411).
loadDeckCached ==
    /\ loadAtPair
    /\ ~needsFetch(db, loadKey, FALSE)
    /\ cpBefore' = cpByDeck
    /\ cpByDeck' = record(cpByDeck, loadDeckId, gihByCard(UnmarshalPerf(db[loadKey])))
    /\ loadLog' = Append(loadLog, LoadCall(TRUE, db[loadKey]))
    /\ loadAdvance
    /\ UNCHANGED <<cardSets, setsInPools, remote17, loadDone>>
    /\ UNCHANGED <<cardVars, perfVars>>

\* lines 358-375 where getCardPerformanceData fetches the body, stores it and
\* returns it parsed (its lines 397-411).
loadDeckFetched ==
    /\ loadAtPair
    /\ needsFetch(db, loadKey, FALSE)
    /\ dbBefore' = db
    /\ db' = dbSet(db, loadKey, remote17[loadSetCode])
    /\ cpBefore' = cpByDeck
    /\ cpByDeck' = record(cpByDeck, loadDeckId,
                          gihByCard(UnmarshalPerf(remote17[loadSetCode])))
    /\ loadLog' = Append(loadLog, LoadCall(TRUE, remote17[loadSetCode]))
    /\ loadAdvance
    /\ UNCHANGED <<cardSets, setsInPools, remote17, loadDone>>
    /\ UNCHANGED <<pc, inName, cardName, dbMiss, seenBefore, uri, i, err, tries, webLog,
                   writes, ret, resolved, nCalls, perfVars>>

loadDeckFailedEndsLoop ==
    /\ loadAtPair
    /\ needsFetch(db, loadKey, FALSE)
    /\ Cardinality({ k \in 1 .. Len(loadLog) : ~loadLog[k].ok }) < MaxLoadFailures
    /\ cpBefore' = cpByDeck
    /\ loadLog' = Append(loadLog, LoadCall(FALSE, ""))
    /\ lSet' = Len(allSeventeenLandsSets) + 1
    /\ lDeck' = 1
    /\ UNCHANGED <<cardSets, setsInPools, remote17, cpByDeck, loadDone>>
    /\ UNCHANGED <<cardVars, perfVars>>

\* lines 358-363 where getCardPerformanceData returns an error (its lines
\* 397-401): the pair is skipped.
loadDeckFailed ==
    /\ loadAtPair
    /\ needsFetch(db, loadKey, FALSE)
    /\ Cardinality({ k \in 1 .. Len(loadLog) : ~loadLog[k].ok }) < MaxLoadFailures
    /\ cpBefore' = cpByDeck
    /\ loadLog' = Append(loadLog, LoadCall(FALSE, ""))
    /\ loadAdvance
    /\ UNCHANGED <<cardSets, setsInPools, remote17, cpByDeck, loadDone>>
    /\ UNCHANGED <<cardVars, perfVars>>

\* line 358 where the fetch under getCardPerformanceData ends in checkError
\* (lines 862-863, 870-871): the process panics.
loadDeckPanics ==
    /\ loadAtPair
    /\ needsFetch(db, loadKey, FALSE)
    /\ pc' = "panic"
    /\ UNCHANGED loadVars
    /\ UNCHANGED <<db, dbBefore, inName, cardName, dbMiss, seenBefore, uri, i, err, tries,
                   webLog, writes, ret, resolved, nCalls, perfVars>>

\* line 380: the loop over the sets has ended; cpByDeck is returned.
loadReturns ==
    /\ pc = "idle"
    /\ ~loadDone
    /\ lSet > Len(allSeventeenLandsSets)
    /\ loadDone' = TRUE
    /\ UNCHANGED <<cardSets, setsInPools, remote17, lSet, lDeck, cpByDeck, loadLog, cpBefore>>
    /\ UNCHANGED <<cardVars, perfVars>>

----------------------------------------------------------------------------
(* PlayerPool.addFacts *)

\* A ScryfallCard (the fields addFacts reads): the type line is a sequence of
\* words, the mana value is in tenths, the price is the string of Prices.Usd.
ScryfallCard(name, identity, typeLine, cmc, usd) ==
    [Name |-> name, ColorIdentity |-> identity, TypeLine |-> typeLine,
     Cmc |-> cmc, Usd |-> usd]

\* The three characters that line 740 replaces: a dash read in the wrong
\* encoding.
FunkyDash == "<funky dash>"

\* The cards the slots of a pool resolve to.
FactCards ==
    { ScryfallCard("Lightning Bolt", << "R" >>, << "Instant" >>, 10, "1.50"),
      ScryfallCard("Plains", << "W" >>, << "Basic", "Land", FunkyDash, "Plains" >>, 0, "0.10"),
      ScryfallCard("Command Tower", << >>, << "Land" >>, 0, "0.25"),
      ScryfallCard("Growth Spiral", << "G", "U" >>, << "Instant" >>, 20, ""),
      ScryfallCard("Ramunap Ruins", << "R" >>, << "Land", FunkyDash, "Desert" >>, 0, "0.25"),
      ScryfallCard("Kozilek", << >>,
                   << "Legendary", "Creature", FunkyDash, "Eldrazi" >>, 105, "1.50") }

FactAmounts == { 1, 4 }

\* A DeckSlot with its resolved card, as fetchCardData appends it (line 216).
FactSlots ==
    { [amount |-> a, cardName |-> c.Name, card |-> c] : a \in FactAmounts, c \in FactCards }

\* Pools as fetchCardData builds them: one slot per name, in any order.
FactPools ==
    { q \in SeqsUpTo(FactSlots, MaxFactSlots) :
        \A a, b \in 1 .. Len(q) : q[a].cardName = q[b].cardName => a = b }

\* The curated lists loadFunFactLists may have loaded.
CuratedLists == { {}, { "Lightning Bolt", "Plains" } }

\* Performance data handed to addFacts.
FactTables ==
    { EmptyMap,
      [d \in { "WR", "UR", "BR", "RG" } |->
          CASE d = "WR" -> [n \in { "Lightning Bolt", "Plains" } |->
                               IF n = "Lightning Bolt" THEN 650 ELSE 500]
            [] d = "UR" -> [n \in { "Lightning Bolt" } |-> 600]
            [] d = "BR" -> [n \in { "Plains" } |-> 500]
            [] d = "RG" -> [n \in { "Lightning Bolt" } |-> 10]],
      [d \in { "WR", "UR", "BR" } |->
          [n \in { "Lightning Bolt", "Plains" } |->
              IF n = "Lightning Bolt" THEN 650 ELSE 500]] }

isInCuratedSet(name, curatedCardNames) == name \in curatedCardNames

isBasicLandWithoutTower(ds) ==
    ds.card.Name \in { "Plains", "Island", "Swamp", "Mountain", "Forest" }

\* isBasicLand, lines 667-669.
isBasicLand(ds) ==
    ds.card.Name \in { "Plains", "Island", "Swamp", "Mountain", "Forest", "Command Tower" }

\* isColour, lines 673-685.
isColour(ds, colour, mono) ==
    IF mono /\ Len(ds.card.ColorIdentity) > 1
    THEN FALSE
    ELSE \E k \in 1 .. Len(ds.card.ColorIdentity) : ds.card.ColorIdentity[k] = colour

\* getTypeLineClean, lines 739-741: the mis-decoded dash becomes "-".
getTypeLineClean(card) ==
    [k \in 1 .. Len(card.TypeLine) |->
        IF card.TypeLine[k] = FunkyDash THEN "-" ELSE card.TypeLine[k]]

\* strings.Contains on sequences of words.
Contains(str, phrase) ==
    \E k \in 0 .. (Len(str) - Len(phrase)) : SubSeq(str, k + 1, k + Len(phrase)) = phrase

\* isCardType, lines 696-698.
isCardType(ds, typePhrase) == Contains(getTypeLineClean(ds.card), typePhrase)

\* isMultiColour, lines 687-689.
isMultiColour(ds) == Len(ds.card.ColorIdentity) > 1 /\ ~isCardType(ds, << "Land" >>)

\* isColourless, lines 691-693.
isColourless(ds) == Len(ds.card.ColorIdentity) = 0

\* strconv.ParseFloat of a price, in cents; an error leaves 0 (line 550).
ParseUsd(str) ==
    CASE str = "1.50" -> 150
      [] str = "0.25" -> 25
      [] str = "0.10" -> 10
      [] OTHER -> 0

\* int(math.Round(x)) for x >= 0 given as units of 1/scale.
RoundOf(x, scale) == (2 * x + scale) \div (2 * scale)

\* lines 473-491: the counters before the loop.
ZeroFacts ==
    [bombs |-> 0, duds |-> 0, topcommons |-> 0, white |-> 0, blue |-> 0, black |-> 0,
     red |-> 0, green |-> 0, gold |-> 0, colourless |-> 0, nonbasicland |-> 0,
     playsets |-> 0, cmc |-> 0, costUSD |-> 0, uniqueCards |-> 0, commanders |-> 0]

Plus(b, n) == IF b THEN n ELSE 0

\* lines 496-559: the counters after the loop body has run for slot card;
\* cmc is in tenths and costUSD in cents.
factsOfCard(c, card) ==
    IF isBasicLand(card) THEN c
    ELSE [bombs |-> c.bombs + Plus(isInCuratedSet(card.cardName, bombList), card.amount),
          duds |-> c.duds + Plus(isInCuratedSet(card.cardName, dudList), card.amount),
          topcommons |-> c.topcommons
                           + Plus(isInCuratedSet(card.cardName, topCommonList), card.amount),
          white |-> c.white + Plus(isColour(card, "W", TRUE), card.amount),
          blue |-> c.blue + Plus(isColour(card, "U", TRUE), card.amount),
          black |-> c.black + Plus(isColour(card, "B", TRUE), card.amount),
          red |-> c.red + Plus(isColour(card, "R", TRUE), card.amount),
          green |-> c.green + Plus(isColour(card, "G", TRUE), card.amount),
          gold |-> c.gold + Plus(isMultiColour(card), card.amount),
          colourless |-> c.colourless
                           + Plus(isColourless(card) /\ ~isCardType(card, << "Land" >>),
                                  card.amount),
          nonbasicland |-> c.nonbasicland
                             + Plus(isCardType(card, << "Land" >>) /\ ~isBasicLand(card),
                                    card.amount),
          playsets |-> c.playsets + Plus(card.amount >= 4, 1),
          costUSD |-> c.costUSD + card.amount * ParseUsd(card.card.Usd),
          cmc |-> c.cmc + card.amount * card.card.Cmc,
          uniqueCards |-> c.uniqueCards + 1,
          commanders |-> c.commanders
                           + Plus(isCardType(card, << "Legendary", "Creature" >>), 1)]

\* lines 494-560: the loop over pool.cards.
RECURSIVE factsLoop(_, _)
factsLoop(cards, c) ==
    IF cards = << >> THEN c ELSE factsLoop(Tail(cards), factsOfCard(c, Head(cards)))

factsOfStrengthOfAll(cards, alive, poolStrength) ==
    LET c == factsLoop(cards, ZeroFacts)
    IN  [bombs |-> c.bombs, duds |-> c.duds, topcommons |-> c.topcommons,
         white |-> c.white, blue |-> c.blue, black |-> c.black, red |-> c.red,
         green |-> c.green, gold |-> c.gold, colourless |-> c.colourless,
         cmc |-> RoundOf(c.cmc, 10), nonbasicland |-> c.nonbasicland,
         commanders |-> c.commanders, playsets |-> c.playsets,
         uniqueCards |-> c.uniqueCards, costUSD |-> RoundOf(c.costUSD, 100),
         strength |-> poolStrength]

\* lines 566-587: the facts written to the pool.
factsOf(cards, alive, poolStrength) ==
    LET c == factsLoop(cards, ZeroFacts)
    IN  [bombs |-> c.bombs, duds |-> c.duds, topcommons |-> c.topcommons,
         white |-> c.white, blue |-> c.blue, black |-> c.black, red |-> c.red,
         green |-> c.green, gold |-> c.gold, colourless |-> c.colourless,
         cmc |-> RoundOf(c.cmc, 10), nonbasicland |-> c.nonbasicland,
         commanders |-> c.commanders, playsets |-> c.playsets,
         uniqueCards |-> c.uniqueCards, costUSD |-> RoundOf(c.costUSD, 100),
         strength |-> IF alive THEN poolStrength ELSE 0]

\* line 71.
leagueEliminationLosses == 11

\* makePool, lines 785-797: the pool of a sheet row, without cards.
makePool(player, lost) ==
    [player |-> player, isAlive |-> lost < leagueEliminationLosses, cards |-> << >>]

\* The losses of a sheet row: one short of elimination, and eliminated.
RunLosses == { 10, 11 }

FactIdle ==
    /\ losses = 0
    /\ isAlive = FALSE
    /\ facts = EmptyMap
    /\ factsDone = FALSE
    /\ bombList = {}
    /\ dudList = {}
    /\ topCommonList = {}

\* makePool, lines 785-797, fetchCardData, lines 208-223, and
\* loadFunFactLists, lines 459-468: a pool with its resolved cards, the
\* curated lists and the performance data, before addFacts.
FactInit ==
    /\ poolCards \in FactPools
    /\ cardStrengthByDeck \in FactTables
    /\ deckStrengths = EmptyMap
    /\ strength = 0
    /\ scored = FALSE
    /\ prevDeckStrengths = EmptyMap
    /\ lastAdded = ""
    /\ nAdds = 0
    /\ losses \in RunLosses
    /\ isAlive = makePool("player", losses).isAlive
    /\ facts = EmptyMap
    /\ factsDone = FALSE
    /\ bombList \in CuratedLists
    /\ dudList \in CuratedLists
    /\ topCommonList = {}

\* addFacts, lines 470-588, with its call of calculateStrength (line 563).
addFacts ==
    /\ ~factsDone
    /\ deckStrengths' = deckStrengthsOf(poolCards, cardStrengthByDeck)
    /\ \E order \in IterationOrders : strength' = combineTopThree(deckStrengths', order)
    /\ scored' = TRUE
    /\ facts' = factsOf(poolCards, isAlive, strength')
    /\ factsDone' = TRUE
    /\ UNCHANGED <<poolCards, cardStrengthByDeck, prevDeckStrengths, lastAdded, nAdds,
                   losses, isAlive, bombList, dudList, topCommonList>>

----------------------------------------------------------------------------
(* main: populatePools, processPools, loadFunFactLists, processFunFacts *)

\* What the deck of a pool flattens to (the order is that of a Go map).
RunDecks ==
    { << >>,
      << DeckSlot(1, "Bolt") >>,
      << DeckSlot(1, "Bolt"), DeckSlot(2, "Opt") >>,
      << DeckSlot(2, "Opt"), DeckSlot(1, "Bolt") >> }

\* The rows getPoolsFromSheet reads, lines 162-171.
RunRows == [losses : RunLosses, slots : RunDecks]

\* The Set field of the card getCard returns.
RunCardSets == { "hbg", "snc" }

\* No run of main is in progress.
RunIdle ==
    /\ pools = << >>
    /\ poolDecks = << >>
    /\ stage = "none"
    /\ poolIx = 1
    /\ cardIx = 0
    /\ outputs = << >>
    /\ getCardLog = << >>

\* main, lines 92-106: the store is open, the current set is registered, the
\* pools of the sheet are made, and populatePools begins.
RunInit ==
    /\ \E rows \in SeqsUpTo(RunRows, MaxRunPools) :
          /\ pools = [k \in 1 .. Len(rows) |-> makePool("player", rows[k].losses)]
          /\ poolDecks = [k \in 1 .. Len(rows) |-> rows[k].slots]
    /\ stage = "populate"
    /\ poolIx = 1
    /\ cardIx = 0
    /\ outputs = << >>
    /\ getCardLog = << >>
    /\ cardSets = {}
    /\ setsInPools = {currentSet}
    /\ remote17 = << >>
    /\ lSet = 1
    /\ lDeck = 1
    /\ cpByDeck = EmptyMap
    /\ loadDone = FALSE
    /\ loadLog = << >>
    /\ cpBefore = EmptyMap

\* populatePools is in its loop, at a pool (line 184).
populateAtPool == pc = "idle" /\ stage = "populate" /\ poolIx <= Len(pools)

\* fetchCardData is in its loop, at a card (line 214).
populateAtCard == populateAtPool /\ cardIx >= 1

\* The next iteration of the loops of lines 214 and 184.
populateAdvance ==
    IF cardIx < Len(poolDecks[poolIx])
    THEN poolIx' = poolIx /\ cardIx' = cardIx + 1
    ELSE poolIx' = poolIx + 1 /\ cardIx' = 0

\* One getCard call of fetchCardData, as recorded in getCardLog.
GetCardCall(ok) == [pool |-> poolIx, card |-> cardIx, ok |-> ok]

\* line 186: getCardsFromPool returns the deck of the pool, and fetchCardData
\* flattens it (line 211).
populateDeckFetched ==
    /\ populateAtPool
    /\ cardIx = 0
    /\ IF poolDecks[poolIx] = << >>
       THEN poolIx' = poolIx + 1 /\ cardIx' = 0
       ELSE poolIx' = poolIx /\ cardIx' = 1
    /\ UNCHANGED <<pools, poolDecks, stage, outputs, getCardLog>>
    /\ UNCHANGED <<cardVars, perfVars, loadVars>>

\* line 186 where the fetch under getCardsFromPool fails: checkError (line
\* 195) panics.
populateDeckPanics ==
    /\ populateAtPool
    /\ cardIx = 0
    /\ pc' = "panic"
    /\ UNCHANGED runVars
    /\ UNCHANGED <<db, dbBefore, inName, cardName, dbMiss, seenBefore, uri, i, err, tries,
                   webLog, writes, ret, resolved, nCalls, perfVars, loadVars>>

\* lines 215-221 where getCard returns a card: the slot is appended to the
\* pool's cards and the card's set is registered.
populateCardResolved(set) ==
    /\ populateAtCard
    /\ LET slot == poolDecks[poolIx][cardIx]
       IN  pools' = [pools EXCEPT ![poolIx].cards =
                        Append(@, [amount |-> slot.amount, cardName |-> slot.cardName,
                                   card |-> [Name |-> slot.cardName, Set |-> set]])]
    /\ cardSets' = cardSets \cup {set}
    /\ setsInPools' = IF ~leagueIsMonoSet
                      THEN setsInPools \cup { ToUpper(set) }
                      ELSE setsInPools
    /\ getCardLog' = Append(getCardLog, GetCardCall(TRUE))
    /\ populateAdvance
    /\ UNCHANGED <<poolDecks, stage, outputs>>
    /\ UNCHANGED <<remote17, lSet, lDeck, cpByDeck, loadDone, loadLog, cpBefore>>
    /\ UNCHANGED <<cardVars, perfVars>>

populateCardFailsSkips ==
    /\ populateAtCard
    /\ getCardLog' = Append(getCardLog, GetCardCall(FALSE))
    /\ populateAdvance
    /\ UNCHANGED <<pools, poolDecks, stage, outputs>>
    /\ UNCHANGED <<cardVars, perfVars, loadVars>>

\* lines 215-216 where getCard returns an error: checkError (lines 877-881)
\* panics, and nothing in the program recovers.
populateCardFails ==
    /\ populateAtCard
    /\ getCardLog' = Append(getCardLog, GetCardCall(FALSE))
    /\ pc' = "panic"
    /\ UNCHANGED <<pools, poolDecks, stage, poolIx, cardIx, outputs>>
    /\ UNCHANGED <<db, dbBefore, inName, cardName, dbMiss, seenBefore, uri, i, err, tries,
                   webLog, writes, ret, resolved, nCalls, perfVars, loadVars>>

\* lines 178-188: the loop of populatePools has ended, or there is no pool;
\* main goes on to processPools of the living pools (line 122).
populateReturns ==
    /\ pc = "idle"
    /\ stage = "populate"
    /\ poolIx > Len(pools)
    /\ stage' = "alive"
    /\ UNCHANGED <<pools, poolDecks, poolIx, cardIx, outputs, getCardLog>>
    /\ UNCHANGED <<cardVars, perfVars, loadVars>>

\* main, lines 109-117: the living pools, or the dead ones.
poolsOfType(poolType) ==
    SelectSeq(pools, LAMBDA p : p.isAlive = (poolType = "alive"))

\* flattenDeckSlots, lines 280-290.
RECURSIVE flattenDeckSlots(_, _)
flattenDeckSlots(allCards, cards) ==
    IF cards = << >> THEN allCards
    ELSE LET c == Head(cards)
             before == IF c.cardName \in DOMAIN allCards
                       THEN allCards[c.cardName].amount
                       ELSE 0
         IN  flattenDeckSlots(
                 MapSet(allCards, c.cardName,
                        [amount |-> before + c.amount, cardName |-> c.cardName,
                         card |-> c.card]),
                 Tail(cards))

\* processPools, lines 234-238: the master list over the pools.
RECURSIVE masterList(_, _)
masterList(allCards, batch) ==
    IF batch = << >> THEN allCards
    ELSE masterList(flattenDeckSlots(allCards, Head(batch).cards), Tail(batch))

\* The stage of main after the given one.
stageAfter(s) ==
    CASE s = "alive" -> "dead"
      [] s = "dead" -> "lists"
      [] s = "lists" -> "facts"
      [] s = "facts" -> "done"

\* processPools, lines 226-252: nothing for an empty batch, else the card
\* listing of the batch is created and written.
processPools ==
    /\ pc = "idle"
    /\ stage \in { "alive", "dead" }
    /\ outputs' = IF poolsOfType(stage) = << >>
                  THEN outputs
                  ELSE Append(outputs,
                              [file |-> stage,
                               rows |-> masterList(EmptyMap, poolsOfType(stage))])
    /\ stage' = stageAfter(stage)
    /\ UNCHANGED <<pools, poolDecks, poolIx, cardIx, getCardLog>>
    /\ UNCHANGED <<cardVars, perfVars, loadVars>>

\* loadFunFactLists, lines 459-468: the three curated lists are fetched.
loadFunFactLists ==
    /\ pc = "idle"
    /\ stage = "lists"
    /\ stage' = stageAfter(stage)
    /\ UNCHANGED <<pools, poolDecks, poolIx, cardIx, outputs, getCardLog>>
    /\ UNCHANGED <<cardVars, perfVars, loadVars>>

\* processFunFacts, lines 433-457: the fact sheet is created with one row
\* for each pool (the facts themselves are those of addFacts).
processFunFacts ==
    /\ pc = "idle"
    /\ stage = "facts"
    /\ outputs' = Append(outputs,
                         [file |-> "funfacts",
                          rows |-> [k \in 1 .. Len(pools) |-> pools[k].isAlive]])
    /\ stage' = stageAfter(stage)
    /\ UNCHANGED <<pools, poolDecks, poolIx, cardIx, getCardLog>>
    /\ UNCHANGED <<cardVars, perfVars, loadVars>>

\* A checkError after populatePools panics: os.Create failed (lines 243, 449),
\* or a fetch under getCardsFromPool or getCardPerformanceData did.
stagePanics ==
    /\ pc = "idle"
    /\ \/ stage \in { "lists", "facts" }
       \/ stage \in { "alive", "dead" } /\ poolsOfType(stage) # << >>
    /\ pc' = "panic"
    /\ UNCHANGED runVars
    /\ UNCHANGED <<db, dbBefore, inName, cardName, dbMiss, seenBefore, uri, i, err, tries,
                   webLog, writes, ret, resolved, nCalls, perfVars, loadVars>>

----------------------------------------------------------------------------
(* ScryfallCard.getManaCost *)

\* Mana costs of a card or of a face; "" is the cost of a land, or of a card
\* whose cost is on its faces.
ManaCosts == { "", "{R}", "{1}{U}" }

\* Card records by the fields getManaCost reads, lines 929 and 936-939.
ManaCards ==
    [ManaCost : ManaCosts, CardFaces : SeqsUpTo([ManaCost : ManaCosts], MaxFaces)]

\* line 715: CardFaces[1] is read of a card with one face only, which Go
\* answers with an index-out-of-range panic.
getManaCostFaults(card) ==
    /\ ~(card.ManaCost # "")
    /\ Len(card.CardFaces) > 0
    /\ ~(card.CardFaces[1].ManaCost # "")
    /\ Len(card.CardFaces) < 2

\* getManaCost, lines 703-722, where it does not fault (the faces are
\* counted from 1 here, from 0 in the code).
getManaCost(card) ==
    IF card.ManaCost # "" THEN card.ManaCost
    ELSE IF Len(card.CardFaces) > 0
         THEN IF card.CardFaces[1].ManaCost # "" THEN card.CardFaces[1].ManaCost
              ELSE IF card.CardFaces[2].ManaCost # "" THEN card.CardFaces[2].ManaCost
                   ELSE ""
         ELSE ""

ManaIdle ==
    /\ manaCard = [ManaCost |-> "", CardFaces |-> << >>]
    /\ manaCost = ""
    /\ manaDone = FALSE

\* A card as getCard returns it, before processPools asks for its mana cost
\* (line 249).
ManaInit ==
    /\ manaCard \in ManaCards
    /\ manaCost = ""
    /\ manaDone = FALSE

\* getManaCost returns.
getManaCostReturns ==
    /\ pc = "idle"
    /\ ~manaDone
    /\ ~getManaCostFaults(manaCard)
    /\ manaCost' = getManaCost(manaCard)
    /\ manaDone' = TRUE
    /\ UNCHANGED <<manaCard, cardVars>>

\* getManaCost panics at line 715.
getManaCostPanics ==
    /\ pc = "idle"
    /\ ~manaDone
    /\ getManaCostFaults(manaCard)
    /\ pc' = "panic"
    /\ manaDone' = TRUE
    /\ UNCHANGED <<manaCard, manaCost>>
    /\ UNCHANGED <<db, dbBefore, inName, cardName, dbMiss, seenBefore, uri, i, err, tries,
                   webLog, writes, ret, resolved, nCalls>>

----------------------------------------------------------------------------
(* Specifications *)

Init == CardInit /\ FlatIdle /\ ScoreIdle /\ LoadIdle /\ FactIdle /\ RunIdle /\ ManaIdle

Next ==
    \/ \E name \in CardNames : getCardHit(name) /\ UNCHANGED <<flatVars, scoreVars, loadVars, factVars, runVars, manaVars>>
    \/ \E name \in CardNames : getCardMiss(name) /\ UNCHANGED <<flatVars, scoreVars, loadVars, factVars, runVars, manaVars>>
    \/ \E body \in Bodies : innerOk(body) /\ UNCHANGED <<flatVars, scoreVars, loadVars, factVars, runVars, manaVars>>
    \/ \E code \in StatusCodes : innerStatus(code) /\ UNCHANGED <<flatVars, scoreVars, loadVars, factVars, runVars, manaVars>>
    \/ innerTransportFail /\ UNCHANGED <<flatVars, scoreVars, loadVars, factVars, runVars, manaVars>>
    \/ innerReadFail /\ UNCHANGED <<flatVars, scoreVars, loadVars, factVars, runVars, manaVars>>
    \/ Restart /\ UNCHANGED <<flatVars, scoreVars, loadVars, factVars, runVars, manaVars>>

\* The card resolver and the fetcher under it.
Spec == Init /\ [][Next]_vars

\* Card names handed to getCard next to the performance resolver.
TierNames == { <<"b">>, <<"A", "-", "b">> }

\* The non-200 status the remote sources answer with next to one another.
TierStatusCodes == { 404 }

\* An operation may begin.
TierMayBegin == nCalls < MaxTierCalls

TierNext ==
    \/ \E name \in TierNames :
           TierMayBegin /\ getCardHit(name) /\ UNCHANGED <<flatVars, scoreVars, loadVars, factVars, runVars, manaVars>>
    \/ \E name \in TierNames :
           TierMayBegin /\ getCardMiss(name) /\ UNCHANGED <<flatVars, scoreVars, loadVars, factVars, runVars, manaVars>>
    \/ \E set \in PerfSets, archetype \in PerfDeckIds, force \in BOOLEAN :
           /\ TierMayBegin
           /\ getCardPerformanceDataHit(set, archetype, force)
           /\ UNCHANGED <<flatVars, scoreVars, loadVars, factVars, runVars, manaVars>>
    \/ \E set \in PerfSets, archetype \in PerfDeckIds, force \in BOOLEAN :
           /\ TierMayBegin
           /\ getCardPerformanceDataMiss(set, archetype, force)
           /\ UNCHANGED <<flatVars, scoreVars, loadVars, factVars, runVars, manaVars>>
    \/ \E poolUri \in PoolUris :
           TierMayBegin /\ getCardsFromPool(poolUri) /\ UNCHANGED <<flatVars, scoreVars, loadVars, factVars, runVars, manaVars>>
    \/ \E body \in Bodies \cup PerfBodies \cup PoolBodies :
           innerOk(body) /\ UNCHANGED <<flatVars, scoreVars, loadVars, factVars, runVars, manaVars>>
    \/ \E code \in TierStatusCodes : innerStatus(code) /\ UNCHANGED <<flatVars, scoreVars, loadVars, factVars, runVars, manaVars>>
    \/ innerTransportFail /\ UNCHANGED <<flatVars, scoreVars, loadVars, factVars, runVars, manaVars>>
    \/ innerReadFail /\ UNCHANGED <<flatVars, scoreVars, loadVars, factVars, runVars, manaVars>>
    \/ Restart /\ UNCHANGED <<flatVars, scoreVars, loadVars, factVars, runVars, manaVars>>
    \/ DayPasses /\ UNCHANGED <<flatVars, scoreVars, loadVars, factVars, runVars, manaVars>>

\* Every resolver of the two tiers over one store: cards, performance data
\* and pools, on successive days.
TierSpec == Init /\ [][TierNext]_vars

FlattenInit == FlatInit /\ CardInit /\ ScoreIdle /\ LoadIdle /\ FactIdle /\ RunIdle /\ ManaIdle

FlattenNext == Flatten /\ UNCHANGED <<cardVars, perfVars, scoreVars, loadVars, factVars, runVars, manaVars>>

\* SealedDeck.flatten applied to every bounded deck and sideboard.
FlattenSpec == FlattenInit /\ [][FlattenNext]_vars

ScoreSpecInit == ScoreInit /\ CardInit /\ FlatIdle /\ LoadIdle /\ FactIdle /\ RunIdle /\ ManaIdle

ScoreNext ==
    \/ calculateStrength /\ UNCHANGED <<cardVars, perfVars, flatVars, loadVars, factVars, runVars, manaVars>>
    \/ \E name \in PoolNames : AddCopy(name) /\ UNCHANGED <<cardVars, perfVars, flatVars, loadVars, factVars, runVars, manaVars>>

\* calculateStrength applied to every bounded pool and performance table.
ScoreSpec == ScoreSpecInit /\ [][ScoreNext]_vars

LoadSpecInit ==
    /\ LoadInit
    /\ \E store \in LoadStores : CardInitOn(store)
    /\ FlatIdle
    /\ ScoreIdle
    /\ FactIdle
    /\ RunIdle
    /\ ManaIdle

LoadNext ==
    \/ loadSetSkipped /\ UNCHANGED <<flatVars, scoreVars, factVars, runVars, manaVars>>
    \/ loadDeckCached /\ UNCHANGED <<flatVars, scoreVars, factVars, runVars, manaVars>>
    \/ loadDeckFetched /\ UNCHANGED <<flatVars, scoreVars, factVars, runVars, manaVars>>
    \/ loadDeckFailed /\ UNCHANGED <<flatVars, scoreVars, factVars, runVars, manaVars>>
    \/ loadDeckPanics /\ UNCHANGED <<flatVars, scoreVars, factVars, runVars, manaVars>>
    \/ loadReturns /\ UNCHANGED <<flatVars, scoreVars, factVars, runVars, manaVars>>

\* loadCardPerformanceData over the observed sets, each archetype's data
\* found in the store, fetched, or not to be had.
LoadSpec == LoadSpecInit /\ [][LoadNext]_vars

FactSpecInit == FactInit /\ CardInit /\ FlatIdle /\ LoadIdle /\ RunIdle /\ ManaIdle

FactNext == addFacts /\ UNCHANGED <<cardVars, perfVars, flatVars, loadVars, runVars, manaVars>>

\* addFacts applied to every bounded pool of resolved cards.
FactSpec == FactSpecInit /\ [][FactNext]_vars

RunSpecInit == RunInit /\ CardInit /\ FlatIdle /\ ScoreIdle /\ FactIdle /\ ManaIdle

RunNext ==
    \/ populateDeckFetched /\ UNCHANGED <<flatVars, scoreVars, factVars, manaVars>>
    \/ populateDeckPanics /\ UNCHANGED <<flatVars, scoreVars, factVars, manaVars>>
    \/ \E set \in RunCardSets :
           populateCardResolved(set) /\ UNCHANGED <<flatVars, scoreVars, factVars, manaVars>>
    \/ populateCardFails /\ UNCHANGED <<flatVars, scoreVars, factVars, manaVars>>
    \/ populateReturns /\ UNCHANGED <<flatVars, scoreVars, factVars, manaVars>>
    \/ processPools /\ UNCHANGED <<flatVars, scoreVars, factVars, manaVars>>
    \/ loadFunFactLists /\ UNCHANGED <<flatVars, scoreVars, factVars, manaVars>>
    \/ processFunFacts /\ UNCHANGED <<flatVars, scoreVars, factVars, manaVars>>
    \/ stagePanics /\ UNCHANGED <<flatVars, scoreVars, factVars, manaVars>>

\* One run of main over every bounded sheet of pools.
RunSpec == RunSpecInit /\ [][RunNext]_vars

ManaSpecInit == ManaInit /\ CardInit /\ FlatIdle /\ ScoreIdle /\ LoadIdle /\ FactIdle /\ RunIdle

ManaNext ==
    \/ getManaCostReturns
          /\ UNCHANGED <<perfVars, flatVars, scoreVars, loadVars, factVars, runVars>>
    \/ getManaCostPanics
          /\ UNCHANGED <<perfVars, flatVars, scoreVars, loadVars, factVars, runVars>>

\* getManaCost applied to every bounded card record.
ManaSpec == ManaSpecInit /\ [][ManaNext]_vars

----------------------------------------------------------------------------
(* Properties of the card resolver and the fetcher (checked under Spec) *)

\* getCard has returned to its caller (with a card or with an error).
getCardReturned == pc = "idle" /\ ret.kind = "getCard"

Last(q) == q[Len(q)]

\* C1: cache-aside.  A getCard that found no entry for its name and returned
\* a card made exactly one getWebResponseString call (the set-scoped one,
\* which succeeded) or exactly two (set-scoped failed, unscoped succeeded)
\* and exactly one store write; a getCard for a name that an earlier getCard
\* already returned a card for makes no getWebResponseString call and no
\* store write.
C1_CacheAside ==
    /\ (getCardReturned /\ dbMiss /\ ret.err = Nil) =>
          /\ Len(writes) = 1
          /\ \/ /\ Len(webLog) = 1
                /\ webLog[1].uri.set = "HBG"
                /\ webLog[1].err = Nil
             \/ /\ Len(webLog) = 2
                /\ webLog[1].uri.set = "HBG"
                /\ webLog[1].err # Nil
                /\ webLog[2].uri.set = ""
                /\ webLog[2].err = Nil
    /\ seenBefore =>
          /\ pc = "idle"
          /\ ~dbMiss
          /\ webLog = <<>>
          /\ tries = <<>>
          /\ writes = <<>>
          /\ db = dbBefore

\* A later getCard for a name already resolved has returned.
C1_Witness == getCardReturned /\ seenBefore /\ ret.err = Nil

\* C2: name normalization.  getCard("A-" + n) uses the store key n, and
\* getCard(n) for a name without the marker uses n: only the leading "A-"
\* is removed.
C2_OnlyMarkerRemoved ==
    nCalls > 0 =>
        cardName = IF HasPrefix(inName, AlchemyPrefix)
                   THEN SubSeq(inName, Len(AlchemyPrefix) + 1, Len(inName))
                   ELSE inName

\* C3: retry bound.  One getWebResponseString call makes at most 3 attempts,
\* none after a successful one; it returns the body of the successful
\* attempt, or, after 3 failed attempts, "" and the error of the third.
\* While a call is in progress fewer than 3 attempts have been made and each
\* attempt is counted by the loop index, so the loop ends.
C3_RetryBound ==
    /\ pc = "web" => i = Len(tries) /\ i < 3
    /\ \A k \in 1 .. Len(webLog) :
          LET c == webLog[k]
              n == Len(c.tries)
          IN  /\ n \in 1 .. 3
              /\ \A j \in 1 .. n - 1 : c.tries[j].kind = "status"
              /\ c.err = Nil =>
                    /\ c.tries[n].kind = "ok"
                    /\ c.r = c.tries[n].body
              /\ c.err # Nil =>
                    /\ n = 3
                    /\ c.tries[3].kind = "status"
                    /\ c.r = ""
                    /\ c.err = c.tries[3].err

\* One call failed three times with differing errors, the next succeeded on
\* its second attempt.
C3_Witness ==
    /\ Len(webLog) = 2
    /\ webLog[1].err # Nil
    /\ webLog[1].tries[2].err # webLog[1].tries[3].err
    /\ webLog[2].err = Nil
    /\ Len(webLog[2].tries) = 2

\* C4: a transport failure (http.Get fails, or reading the body fails) is an
\* error value that is retried and returned; it does not abort the process.
C4_TransportFailureIsAnErrorValue ==
    (tries # <<>> /\ Last(tries).kind \in {"transport", "read"}) => pc # "panic"

\* C5: fallback chain.  After a miss the set-scoped lookup is issued first;
\* the unscoped lookup is issued only after the set-scoped one failed; when
\* getCard returns a card, the payload of the lookup that succeeded is what
\* was written, under the normalized name, which holds no set code.
C5_FallbackChain ==
    /\ Len(webLog) <= 2
    /\ \A k \in 1 .. Len(webLog) :
          webLog[k].uri = IF k = 1 THEN scryfallSetUri(cardName)
                                   ELSE scryfallBaseUri(cardName)
    /\ Len(webLog) = 2 => webLog[1].err # Nil
    /\ pc = "web" =>
          /\ Len(webLog) <= 1
          /\ Len(webLog) = 0 => uri = scryfallSetUri(cardName)
          /\ Len(webLog) = 1 =>
                uri = scryfallBaseUri(cardName) /\ webLog[1].err # Nil
    /\ (getCardReturned /\ dbMiss /\ ret.err = Nil) =>
          /\ Last(webLog).err = Nil
          /\ writes = << <<cardName, Last(webLog).r>> >>
          /\ db = dbSet(dbBefore, cardName, Last(webLog).r)
          /\ \A k \in 1 .. Len(cardName) : cardName[k] # "HBG"

\* getCard returned a card obtained by the unscoped lookup.
C5_Witness ==
    /\ getCardReturned /\ dbMiss /\ ret.err = Nil
    /\ Len(webLog) = 2
    /\ webLog[2].r \in Bodies

\* C6: when the name is not in the store and both remote lookups fail,
\* getCard returns an error and the store is as it was.
C6_BothLookupsFail ==
    (/\ getCardReturned /\ dbMiss
     /\ Len(webLog) = 2 /\ webLog[1].err # Nil /\ webLog[2].err # Nil) =>
        /\ ret.err # Nil
        /\ db = dbBefore
        /\ writes = <<>>
        /\ ~dbHas(db, cardName)

\* Both lookups failed on a store that already held other cards.
C6_Witness ==
    /\ getCardReturned /\ dbMiss
    /\ Len(webLog) = 2 /\ webLog[1].err # Nil /\ webLog[2].err # Nil
    /\ DOMAIN db # {}

----------------------------------------------------------------------------
(* Properties of SealedDeck.flatten (checked under FlattenSpec) *)

RawNames(q) == { q[k].Name : k \in 1 .. Len(q) }

RECURSIVE SumOver(_, _, _)
\* Sum of the counts of the entries of q at the indices idx that name n.
SumOver(q, idx, n) ==
    IF idx = {} THEN 0
    ELSE LET k == CHOOSE x \in idx : TRUE
         IN  (IF q[k].Name = n THEN q[k].Count ELSE 0) + SumOver(q, idx \ {k}, n)

IndexPermutations(n) == { f \in [1 .. n -> 1 .. n] : \A a, b \in 1 .. n : f[a] = f[b] => a = b }

\* C7: flatten returns exactly one slot per distinct name, its amount the sum
\* of the counts of all raw entries of that name in deck and sideboard, and
\* returns the same for every reordering of the raw entries and every split
\* of them between deck and sideboard.
C7_Flatten ==
    flattenDone =>
        LET all == deck \o sideboard
            n == Len(all)
        IN  /\ DOMAIN flattenedCards = RawNames(all)
            /\ \A name \in RawNames(all) :
                  /\ flattenedCards[name].cardName = name
                  /\ flattenedCards[name].amount = SumOver(all, 1 .. n, name)
            /\ \A f \in IndexPermutations(n) : \A cut \in 0 .. n :
                  LET re == [k \in 1 .. n |-> all[f[k]]]
                  IN  flatten(SubSeq(re, 1, cut), SubSeq(re, cut + 1, n))
                         = flattenedCards

\* A name occurs in the deck and in the sideboard, and another name as well.
C7_Witness ==
    /\ flattenDone
    /\ Cardinality(RawNames(deck \o sideboard)) = 2
    /\ \E a \in 1 .. Len(deck) : \E b \in 1 .. Len(sideboard) :
          /\ deck[a].Name = sideboard[b].Name
          /\ deck[a].Count > 0 /\ sideboard[b].Count > 0
          /\ flattenedCards[deck[a].Name].amount = deck[a].Count + sideboard[b].Count

----------------------------------------------------------------------------
(* Properties of calculateStrength (checked under ScoreSpec) *)

ActiveDecks == { "WU", "WB", "WR", "WG", "UB", "UR", "UG", "BR", "BG", "RG" }

\* The win rate the archetype deckId has for name, 0 when it has none.
WinRateIn(deckId, name) ==
    IF deckId \in DOMAIN cardStrengthByDeck
    THEN IF name \in DOMAIN cardStrengthByDeck[deckId]
         THEN cardStrengthByDeck[deckId][name]
         ELSE 0
    ELSE 0

RECURSIVE CopiesAmong(_, _)
\* The number of physical copies in the slots of cards at the indices idx.
CopiesAmong(cards, idx) ==
    IF idx = {} THEN 0
    ELSE LET k == CHOOSE x \in idx : TRUE
         IN  (IF cards[k].amount > 0 THEN cards[k].amount ELSE 0)
               + CopiesAmong(cards, idx \ {k})

TotalCopies(cards) == CopiesAmong(cards, 1 .. Len(cards))

CopiesWorth(cards, deckId, value) ==
    CopiesAmong(cards, { k \in 1 .. Len(cards) : WinRateIn(deckId, cards[k].cardName) = value })

RECURSIVE TopSum(_, _, _, _)
\* The sum of the n largest values when every copy of a slot is worth the
\* win rate of its card in deckId; values are the worths still to be taken.
TopSum(cards, deckId, values, n) ==
    IF values = {} \/ n = 0 THEN 0
    ELSE LET top == CHOOSE x \in values : \A y \in values : x >= y
             have == CopiesWorth(cards, deckId, top)
             take == IF have < n THEN have ELSE n
         IN  take * top + TopSum(cards, deckId, values \ {top}, n - take)

Worths(cards, deckId) == { WinRateIn(deckId, cards[k].cardName) : k \in 1 .. Len(cards) }

\* The deck of S with the largest raw strength.
Strongest(S) == CHOOSE d \in S : \A e \in S : deckStrengths[d] >= deckStrengths[e]

\* best + 0.8 * second + 0.4 * third, times 100, in ten-thousandths, of the
\* three largest raw archetype strengths.
WeightedBestThree ==
    LET first == Strongest(ActiveDecks)
        second == Strongest(ActiveDecks \ {first})
        third == Strongest(ActiveDecks \ {first, second})
    IN  (deckStrengths[first] * 10 + deckStrengths[second] * 8
           + deckStrengths[third] * 4) * 100

C9_RawStrength ==
    scored =>
        \A d \in ActiveDecks :
            deckStrengths[d] =
                TopSum(poolCards, d, Worths(poolCards, d),
                       IF TotalCopies(poolCards) < 60 THEN TotalCopies(poolCards) ELSE 60)

\* More than 60 copies, a card the archetype's map lacks, and copies with a
\* positive win rate that are left out of the sum.
C9_Witness ==
    /\ scored
    /\ TotalCopies(poolCards) > 60
    /\ \E d \in DOMAIN cardStrengthByDeck :
          /\ \E k \in 1 .. Len(poolCards) :
                /\ poolCards[k].amount > 0
                /\ poolCards[k].cardName \notin DOMAIN cardStrengthByDeck[d]
          /\ deckStrengths[d] > 0
    /\ \E d \in DOMAIN cardStrengthByDeck :
          /\ \A k \in 1 .. Len(poolCards) : WinRateIn(d, poolCards[k].cardName) > 0
          /\ deckStrengths[d] <
                TopSum(poolCards, d, Worths(poolCards, d), TotalCopies(poolCards))

\* C10: strength monotonicity.  One more copy of a card whose win rate in an
\* archetype is > 0 (in its slot or in a new slot) does not decrease that
\* archetype's raw strength, also when the pool had 60 or more copies.
C10_Monotone ==
    nAdds > 0 =>
        \A d \in ActiveDecks :
            WinRateIn(d, lastAdded) > 0 => deckStrengths[d] >= prevDeckStrengths[d]

\* A copy was added to a pool of 60 or more copies and displaced a weaker one.
C10_Witness ==
    /\ nAdds > 0
    /\ TotalCopies(poolCards) > 60
    /\ \E d \in ActiveDecks :
          /\ WinRateIn(d, lastAdded) > 0
          /\ deckStrengths[d] > prevDeckStrengths[d]
          /\ prevDeckStrengths[d] > 0

\* poolCards with its slots in the order f.
Reordered(f) == [k \in 1 .. Len(poolCards) |-> poolCards[f[k]]]

\* C24: scorer determinism.  For the pool and the archetype maps of the
\* state, calculateStrength returns the integer it returned for every order
\* of the pool's slots and every order in which the map of archetype
\* strengths is walked; and it has made no store or remote operation.
C24_ScorerDeterminism ==
    scored =>
        /\ \A f \in IndexPermutations(Len(poolCards)) :
              \A strengths \in { IF Reordered(f) = poolCards
                                  THEN deckStrengths
                                  ELSE deckStrengthsOf(Reordered(f), cardStrengthByDeck) } :
                 \A order \in IterationOrders :
                    combineTopThree(strengths, order) = strength
        /\ db = EmptyStore
        /\ webLog = <<>>
        /\ writes = <<>>
        /\ pc = "idle"

\* A pool of two slots is scored, and three archetypes have three different
\* strengths above 0.
C24_Witness ==
    /\ scored
    /\ Len(poolCards) = 2
    /\ \E a, b, c \in DOMAIN deckStrengths :
          /\ deckStrengths[a] > deckStrengths[b]
          /\ deckStrengths[b] > deckStrengths[c]
          /\ deckStrengths[c] > 0
    /\ strength > 0

----------------------------------------------------------------------------
(* The performance resolver and the two tiers over one store (TierSpec) *)

\* getCardPerformanceData has returned to its caller.
perfReturned == pc = "idle" /\ op = "perf" /\ ret.kind = "perf"

\* The key of the call held a value of more than white space when it began.
HadUsableValue == dbKey \in DOMAIN dbBefore /\ dbBefore[dbKey] \notin { "", " " }

\* The store as it was when the operation began, with value under key.
BeforeWith(key, value) ==
    [k \in DOMAIN dbBefore \cup {key} |-> IF k = key THEN value ELSE dbBefore[k]]

\* C11: performance refresh conditions.  getCardPerformanceData asks the
\* remote source exactly when its key is absent from the store, or the stored
\* value is empty or white space only, or forceRefresh is true.  When the
\* fetch succeeds the payload is written as fetched under the computed key
\* and is what gets parsed.  When the stored value is non-empty and
\* forceRefresh is false there is no remote call and no store write.
C11_RefreshConditions ==
    /\ (op = "perf" /\ pc = "web") => (~HadUsableValue \/ forceDataRefresh)
    /\ perfReturned =>
          /\ (webLog # <<>>) <=> (~HadUsableValue \/ forceDataRefresh)
          /\ Len(webLog) <= 1
          /\ (webLog # <<>> /\ webLog[1].err = Nil) =>
                /\ writes = << <<dbKey, webLog[1].r>> >>
                /\ db = BeforeWith(dbKey, webLog[1].r)
                /\ ret.err = Nil
                /\ ret.cp = UnmarshalPerf(webLog[1].r)
          /\ (HadUsableValue /\ ~forceDataRefresh) =>
                /\ webLog = <<>>
                /\ writes = <<>>
                /\ db = dbBefore
                /\ ret.cp = UnmarshalPerf(dbBefore[dbKey])

\* A stored value of white space only was fetched again and replaced, with
\* forceRefresh false.
C11_Witness ==
    /\ perfReturned
    /\ ~forceDataRefresh
    /\ dbKey \in DOMAIN dbBefore
    /\ dbBefore[dbKey] = " "
    /\ Len(webLog) = 1
    /\ webLog[1].err = Nil
    /\ db[dbKey] = RatingsA

\* C12: fetch failure leaves the cache untouched.  When a fetch is needed and
\* every attempt fails, getCardPerformanceData returns an error and the store
\* is as it was, also when forceRefresh is true and a non-empty value was
\* stored: that value is neither returned nor overwritten.
C12_FetchFailure ==
    (perfReturned /\ webLog # <<>> /\ Last(webLog).err # Nil) =>
        /\ Len(Last(webLog).tries) = 3
        /\ \A k \in 1 .. 3 : Last(webLog).tries[k].kind = "status"
        /\ ret.err # Nil
        /\ ret.cp = << >>
        /\ writes = <<>>
        /\ db = dbBefore

\* A forced refresh of a stored rating list failed on all three attempts.
C12_Witness ==
    /\ perfReturned
    /\ forceDataRefresh
    /\ HadUsableValue
    /\ webLog # <<>>
    /\ Len(Last(webLog).tries) = 3
    /\ ret.err # Nil
    /\ db[dbKey] = RatingsA

\* The date of Dates[day] as the key carries it.
DateText(day) ==
    CASE day = 1 -> << "2", "0", "2", "2", "_", "1", "_", "1", "1" >>
      [] day = 2 -> << "2", "0", "2", "2", "_", "1", "1", "_", "1" >>

\* The key of the call in progress or last returned, built on a prefix.
KeyWithPrefix(prefix) ==
    << prefix, pSetCode, "_", pDeckId >>
        \o (IF pSetCode = "HBG" THEN << "_" >> \o DateText(calledOn) ELSE << >>)

\* C13 as stated: the store key used by getCardPerformanceData is "perf_" +
\* set + "_" + archetype, followed by "_" + today's date exactly when the set
\* is the current active set.
C13_KeyHasPerfPrefix == op = "perf" => dbKey = KeyWithPrefix("perf_")

\* C13, amended: the store key used by getCardPerformanceData is "17lands_"
\* + set + "_" + archetype, followed by "_" + today's date (year, month and
\* day, unpadded, joined by "_") exactly when the set is the current active
\* set.
C13_KeyFormat == op = "perf" => dbKey = KeyWithPrefix("17lands_")

\* A call for the active set stored its payload under the dated key.
C13_Witness ==
    /\ perfReturned
    /\ pSetCode = "HBG"
    /\ calledOn = 2
    /\ writes # <<>>
    /\ dbKey \in DOMAIN db

\* C14: daily key rotation.  Two getCardPerformanceData calls for the active
\* set with the same archetype on the same day compute the same key; for a
\* set that is not the active one the key is the same on every day.
C14_DailyKey ==
    (op = "perf" /\ earlier.kind = "perf"
        /\ earlier.set = pSetCode /\ earlier.deck = pDeckId) =>
        /\ (pSetCode = "HBG" /\ earlier.day = calledOn) => dbKey = earlier.key
        /\ pSetCode # "HBG" => dbKey = earlier.key

\* What was stored for another set on one day is found under the same key on
\* the next day.
C14_Witness ==
    /\ perfReturned
    /\ earlier.kind = "perf"
    /\ pSetCode = "SNC"
    /\ earlier.set = "SNC"
    /\ earlier.deck = pDeckId
    /\ earlier.day # calledOn
    /\ ~forceDataRefresh
    /\ webLog = <<>>

\* The pause the code takes after a call to the site.
PauseOfSite(site) ==
    CASE site = "sealeddeck" -> 100
      [] site = "scryfall" -> 75
      [] site = "17lands" -> 1000

\* C18: courtesy pause ordering.  After every successful remote call the
\* pause of that call's source (pool 100 ms, card 75 ms, performance 1000 ms)
\* is taken before the resolver returns, so before any later remote call:
\* a successful call is the last call of its operation, the operation has
\* returned, and the pause was taken after the call.
C18_PauseBeforeReturn ==
    \A k \in 1 .. Len(webLog) :
        webLog[k].err = Nil =>
            /\ k = Len(webLog)
            /\ pc = "idle"
            /\ \E j \in 1 .. Len(slept) :
                  /\ slept[j].ms = PauseOfSite(webLog[k].uri.site)
                  /\ slept[j].after >= k

\* A performance fetch succeeded at its second attempt.
C18_Witness ==
    /\ perfReturned
    /\ Len(webLog) = 1
    /\ webLog[1].err = Nil
    /\ Len(webLog[1].tries) = 2
    /\ Len(slept) = 2

\* C20 as stated: across getCard and getCardPerformanceData operations, with
\* any forceRefresh values, a store key that holds a value is never
\* overwritten with a different value and never removed.
C20_AppendOnly ==
    \A k \in DOMAIN dbBefore : k \in DOMAIN db /\ db[k] = dbBefore[k]

\* C20, amended: a store key that holds a value is never removed, and its
\* value is replaced only by getCardPerformanceData, under the key of that
\* call, when forceRefresh is true or the stored value is empty or white
\* space only.
C20_OverwriteOnlyOnRefresh ==
    \A k \in DOMAIN dbBefore :
        /\ k \in DOMAIN db
        /\ db[k] # dbBefore[k] =>
              /\ op = "perf"
              /\ k = dbKey
              /\ forceDataRefresh \/ dbBefore[k] \in { "", " " }

\* A forced refresh replaced a stored rating list by another one.
C20_Witness ==
    /\ perfReturned
    /\ forceDataRefresh
    /\ dbKey \in DOMAIN dbBefore
    /\ dbBefore[dbKey] = RatingsA
    /\ db[dbKey] = RatingsB

----------------------------------------------------------------------------
(* Properties of loadCardPerformanceData (checked under LoadSpec) *)

\* The least ever-drawn game count that does not count, per rarity.
MinSample(rarity) ==
    CASE rarity = "uncommon" -> 50
      [] rarity = "rare" -> 25
      [] rarity = "mythic" -> 16
      [] OTHER -> 100

\* The card names in the rating list that body raw parses to.
NamesIn(raw) == { UnmarshalPerf(raw)[k].Name : k \in 1 .. Len(UnmarshalPerf(raw)) }

\* The rating of card name in that list.
RatingIn(raw, name) ==
    LET cp == UnmarshalPerf(raw)
    IN  cp[CHOOSE k \in 1 .. Len(cp) : cp[k].Name = name]

\* The value a map built from body raw is to hold for card name.
FilteredRate(raw, name) ==
    IF RatingIn(raw, name).EverDrawnGameCount > MinSample(RatingIn(raw, name).Rarity)
    THEN RatingIn(raw, name).EverDrawnWinRate
    ELSE 0

\* C15: prevalence filter.  In the archetype map built by
\* loadCardPerformanceData a card's value is its ever-drawn win rate only
\* when its ever-drawn game count is strictly greater than the threshold of
\* its rarity; when the count is equal to or below the threshold the card is
\* still in the map, with value 0.
C15_PrevalenceFilter ==
    (loadLog # << >> /\ Last(loadLog).ok) =>
        LET call == Last(loadLog)
        IN  /\ call.deck \in DOMAIN cpByDeck
            /\ \A name \in NamesIn(call.raw) :
                  /\ name \in DOMAIN cpByDeck[call.deck]
                  /\ cpByDeck[call.deck][name] =
                        IF RatingIn(call.raw, name).EverDrawnGameCount
                              > MinSample(RatingIn(call.raw, name).Rarity)
                        THEN RatingIn(call.raw, name).EverDrawnWinRate
                        ELSE 0

\* A map was built from a list with a card one game above its threshold
\* (kept) and a card exactly at its threshold (present with 0).
C15_Witness ==
    /\ loadLog # << >>
    /\ Last(loadLog).ok
    /\ \E name \in NamesIn(Last(loadLog).raw) :
          /\ RatingIn(Last(loadLog).raw, name).EverDrawnGameCount
                = MinSample(RatingIn(Last(loadLog).raw, name).Rarity) + 1
          /\ cpByDeck[Last(loadLog).deck][name] > 0
    /\ \E name \in NamesIn(Last(loadLog).raw) :
          /\ RatingIn(Last(loadLog).raw, name).EverDrawnGameCount
                = MinSample(RatingIn(Last(loadLog).raw, name).Rarity)
          /\ RatingIn(Last(loadLog).raw, name).EverDrawnWinRate > 0
          /\ cpByDeck[Last(loadLog).deck][name] = 0

\* Position of a set in the release order.
ReleaseIndex(set) ==
    CHOOSE k \in 1 .. Len(allSeventeenLandsSets) : allSeventeenLandsSets[k] = set

AllDeckIds == SeqToSet(mtg2CDecks) \cup SeqToSet(mtg3CDecks)

RatedNames == { "Bolt", "Opt", "Shock", "Plains" }

\* The calls of the loop that succeeded for the archetype with data that has
\* the card.
CallsWith(archetype, name) ==
    { k \in 1 .. Len(loadLog) :
        /\ loadLog[k].ok
        /\ loadLog[k].deck = archetype
        /\ name \in NamesIn(loadLog[k].raw) }

LatestOf(calls) == CHOOSE k \in calls : \A j \in calls : j <= k

\* C16: last-write-wins across sets.  loadCardPerformanceData processes the
\* observed sets in the release order of allSeventeenLandsSets, and when a
\* card name occurs in the data of two (or more) observed sets for the same
\* archetype, both resolved successfully, the value in the returned
\* archetype map is the one derived from the latest of these sets.
C16_LatestSetWins ==
    /\ \A j, k \in 1 .. Len(loadLog) :
          j < k => ReleaseIndex(loadLog[j].set) <= ReleaseIndex(loadLog[k].set)
    /\ loadDone =>
          \A archetype \in AllDeckIds, name \in RatedNames :
              Cardinality(CallsWith(archetype, name)) >= 2 =>
                  /\ archetype \in DOMAIN cpByDeck
                  /\ name \in DOMAIN cpByDeck[archetype]
                  /\ cpByDeck[archetype][name] =
                        FilteredRate(loadLog[LatestOf(CallsWith(archetype, name))].raw,
                                     name)

\* The (set, archetype) pairs of the observed sets from position k of the
\* release order on, in the order of the loops.
RECURSIVE PairsFrom(_)
PairsFrom(k) ==
    IF k > Len(allSeventeenLandsSets) THEN << >>
    ELSE (IF allSeventeenLandsSets[k] \in setsInPools
          THEN [d \in 1 .. (IF allSeventeenLandsSets[k] = "SNC" THEN 20 ELSE 10) |->
                   << allSeventeenLandsSets[k], (mtg2CDecks \o mtg3CDecks)[d] >>]
          ELSE << >>)
         \o PairsFrom(k + 1)

\* C17: partial failure in the performance loop.  When
\* getCardPerformanceData returns an error for one (set, archetype),
\* loadCardPerformanceData skips only that pair: the maps recorded so far,
\* the one of that archetype among them, are as they were, and when the
\* function returns it has called getCardPerformanceData for every archetype
\* of every observed set, in order, those after the failed pair included.
C17_PartialFailure ==
    /\ (loadLog # << >> /\ ~Last(loadLog).ok) => cpByDeck = cpBefore
    /\ loadDone =>
          [k \in 1 .. Len(loadLog) |-> << loadLog[k].set, loadLog[k].deck >>]
              = PairsFrom(1)

\* The function returned after a pair of the current set failed for an
\* archetype that an earlier set had recorded a map for; that map is in the
\* result, and pairs after the failed one were resolved.
C17_Witness ==
    /\ loadDone
    /\ \E k \in 1 .. Len(loadLog) :
          /\ ~loadLog[k].ok
          /\ loadLog[k].set = "HBG"
          /\ k < Len(loadLog)
          /\ loadLog[k + 1].ok
          /\ \E j \in 1 .. (k - 1) :
                /\ loadLog[j].ok
                /\ loadLog[j].deck = loadLog[k].deck
                /\ loadLog[j].set = "SNC"
                /\ cpByDeck[loadLog[k].deck] = gihByCard(UnmarshalPerf(loadLog[j].raw))
                /\ cpByDeck[loadLog[k].deck] # EmptyMap

\* The rarities of the cards in the rating lists the loop has received.
RaritiesSeen ==
    UNION { { cp[j].Rarity : j \in 1 .. Len(cp) } :
              cp \in { UnmarshalPerf(loadLog[k].raw) :
                         k \in { n \in 1 .. Len(loadLog) : loadLog[n].ok } } }

\* Rarity strings next to the four the code names: the empty one, another
\* rarity of scryfall, and a named one in other letters.
OtherRarities == { "", "special", "Mythic", "commons" }

\* C25: rarity thresholds.  The base sample count is 100, and for every
\* rarity of a card the loop has received, and every other rarity string,
\* getCardPrevalenceThreshold is 100 for common, 50 for uncommon, 25 for
\* rare, 16 for mythic and 100 for any other string.
C25_RarityThresholds ==
    /\ seventeenLandsDrawnThreshold = 100
    /\ \A rarity \in RaritiesSeen \cup OtherRarities :
          getCardPrevalenceThreshold(rarity) =
              CASE rarity = "common" -> 100
                [] rarity = "uncommon" -> 50
                [] rarity = "rare" -> 25
                [] rarity = "mythic" -> 16
                [] OTHER -> 100

\* Cards of all four named rarities and a card without rarity were received.
C25_Witness ==
    /\ loadDone
    /\ RaritiesSeen = { "", "common", "uncommon", "rare", "mythic" }

\* The calls of the loop that succeeded for the archetype.
SucceededFor(archetype) ==
    { k \in 1 .. Len(loadLog) : loadLog[k].ok /\ loadLog[k].deck = archetype }

\* The map of card name to filtered win rate that body raw gives.
FilteredMap(raw) == [name \in NamesIn(raw) |-> FilteredRate(raw, name)]

----------------------------------------------------------------------------
(* Properties of addFacts (checked under FactSpec) *)

BasicNames == { "Plains", "Island", "Swamp", "Mountain", "Forest", "Command Tower" }

\* The slots of the pool whose resolved card is not a basic land.
NonBasicSlots == { k \in 1 .. Len(poolCards) : poolCards[k].card.Name \notin BasicNames }

\* The slots among them whose card has the colour as its whole identity.
MonoSlots(colour) ==
    { k \in NonBasicSlots : poolCards[k].card.ColorIdentity = << colour >> }

RECURSIVE AmountOver(_)
AmountOver(slots) ==
    IF slots = {} THEN 0
    ELSE LET k == CHOOSE x \in slots : TRUE
         IN  poolCards[k].amount + AmountOver(slots \ {k})

\* The pool without the slots of basic lands.
WithoutBasics == SelectSeq(poolCards, LAMBDA ds : ds.card.Name \notin BasicNames)

\* C19: basic-land exclusion in facts.  A slot whose resolved card is a basic
\* land (Plains, Island, Swamp, Mountain, Forest) or Command Tower adds to
\* none of the counts of addFacts: they are those of the pool without such
\* slots; the unique-card count is the number of non-basic slots, each
\* colour count is the summed amount of the non-basic mono-coloured slots of
\* that colour, and playsets counts the non-basic slots of 4 or more.
C19_BasicLandsExcluded ==
    factsDone =>
        /\ facts.uniqueCards = Cardinality(NonBasicSlots)
        /\ facts.white = AmountOver(MonoSlots("W"))
        /\ facts.blue = AmountOver(MonoSlots("U"))
        /\ facts.black = AmountOver(MonoSlots("B"))
        /\ facts.red = AmountOver(MonoSlots("R"))
        /\ facts.green = AmountOver(MonoSlots("G"))
        /\ facts.playsets = Cardinality({ k \in NonBasicSlots : poolCards[k].amount >= 4 })
        /\ \A f \in { "bombs", "duds", "topcommons", "gold", "colourless",
                      "nonbasicland", "commanders", "cmc", "costUSD" } :
              facts[f] = factsOf(WithoutBasics, isAlive, strength)[f]

\* The pool {Lightning Bolt: 1, Plains: 4}, Plains a listed bomb: unique
\* cards 1, red 1, white 0, playsets 0, bombs 0.
C19_Witness ==
    /\ factsDone
    /\ Len(poolCards) = 2
    /\ \E k \in 1 .. 2 :
          poolCards[k].card.Name = "Lightning Bolt" /\ poolCards[k].amount = 1
    /\ \E k \in 1 .. 2 :
          poolCards[k].card.Name = "Plains" /\ poolCards[k].amount = 4
    /\ "Plains" \in bombList
    /\ facts.uniqueCards = 1
    /\ facts.red = 1
    /\ facts.white = 0
    /\ facts.playsets = 0


\* The call follows a call for the same set and archetype made on another
\* day, and the key of that call is in the store.
FollowsCachedDay ==
    /\ op = "perf"
    /\ earlier.kind = "perf"
    /\ earlier.set = pSetCode
    /\ earlier.deck = pDeckId
    /\ earlier.day # calledOn
    /\ earlier.key \in DOMAIN dbBefore

\* C21: daily invalidation.  When data of the current set and an archetype
\* was cached on one day, a call for the same pair on another day does not
\* find it: its key is another one and is absent, a remote fetch is issued
\* and the entry of the earlier day stays in the store as it was.  For any
\* other set, once a payload of more than white space is cached, a call on a
\* later day with forceRefresh false issues no remote fetch.
C21_DailyInvalidation ==
    /\ (FollowsCachedDay /\ pSetCode = currentSet) =>
          /\ dbKey # earlier.key
          /\ dbKey \notin DOMAIN dbBefore
          /\ perfReturned => webLog # <<>>
          /\ earlier.key \in DOMAIN db
          /\ db[earlier.key] = dbBefore[earlier.key]
    /\ (FollowsCachedDay /\ pSetCode # currentSet /\ ~forceDataRefresh
            /\ dbBefore[earlier.key] \notin { "", " " }) =>
          /\ perfReturned
          /\ webLog = <<>>
          /\ db = dbBefore

\* A rating list of the current set cached on the first day is fetched again
\* on the second day and both entries are in the store.
C21_Witness ==
    /\ perfReturned
    /\ FollowsCachedDay
    /\ pSetCode = currentSet
    /\ dbBefore[earlier.key] = RatingsA
    /\ Len(webLog) = 1
    /\ webLog[1].err = Nil
    /\ db[dbKey] = RatingsB
    /\ db[earlier.key] = RatingsA


\* The sets of the calls loadCardPerformanceData has made.
QueriedSets == { loadLog[k].set : k \in 1 .. Len(loadLog) }

\* The sets that at least one card of the loaded pools resolved to.
SetsOfCards == { ToUpper(s) : s \in cardSets }

\* C22 as stated: every set that loadCardPerformanceData queries is the
\* resolved set of at least one card of at least one loaded pool.
C22_OnlyCardSetsQueried == QueriedSets \subseteq SetsOfCards

\* C22: only observed sets are queried.  Every set that
\* loadCardPerformanceData calls getCardPerformanceData for is the current
\* set, which main registers before any pool is loaded, or the resolved set
\* (in upper case) of at least one card of at least one loaded pool; no other
\* set is ever queried.
C22_OnlyObservedSetsQueried ==
    /\ QueriedSets \subseteq {currentSet} \cup SetsOfCards
    /\ \A k \in 1 .. Len(allSeventeenLandsSets) :
          (allSeventeenLandsSets[k] # currentSet
              /\ allSeventeenLandsSets[k] \notin SetsOfCards) =>
          allSeventeenLandsSets[k] \notin QueriedSets

\* The pools hold cards of neo and xln only: NEO and the current set were
\* queried, SNC and XLN were not.
C22_Witness ==
    /\ loadDone
    /\ cardSets = {"neo", "xln"}
    /\ QueriedSets = {"NEO", currentSet}


----------------------------------------------------------------------------
(* Properties of a run of main (checked under RunSpec) *)

\* The getCard calls of fetchCardData that returned an error.
FailedCalls == { k \in 1 .. Len(getCardLog) : ~getCardLog[k].ok }

\* C23: fail-fast pipeline.  If getCard fails for a card of a pool during
\* populatePools the run aborts there: the process has panicked in
\* populatePools, the failed call is the last getCard call, the loops stand
\* at the failed card so that no later card or pool is resolved, and no file
\* (card listing or fact sheet) has been created, so that no partial card
\* list is reported.
C23_FailFast ==
    FailedCalls # {} =>
        /\ pc = "panic"
        /\ stage = "populate"
        /\ FailedCalls = { Len(getCardLog) }
        /\ poolIx = Last(getCardLog).pool
        /\ cardIx = Last(getCardLog).card
        /\ Len(pools[poolIx].cards) = cardIx - 1
        /\ \A k \in poolIx + 1 .. Len(pools) : pools[k].cards = << >>
        /\ outputs = << >>

\* The first pool is resolved, the second card of the second pool fails: the
\* second pool is left with one card and nothing is written.
C23_Witness ==
    /\ FailedCalls # {}
    /\ poolIx = 2
    /\ cardIx = 2
    /\ Len(pools[1].cards) = 2
    /\ Len(pools[2].cards) = 1
    /\ pc = "panic"
    /\ outputs = << >>


----------------------------------------------------------------------------
(* Properties of getManaCost (checked under ManaSpec) *)

\* The mana cost the card is to give: its own, else that of its first face,
\* else that of its second face if it has one, else none.
RecoveredCost ==
    IF manaCard.ManaCost # "" THEN manaCard.ManaCost
    ELSE IF Len(manaCard.CardFaces) >= 1 /\ manaCard.CardFaces[1].ManaCost # ""
         THEN manaCard.CardFaces[1].ManaCost
         ELSE IF Len(manaCard.CardFaces) >= 2 /\ manaCard.CardFaces[2].ManaCost # ""
              THEN manaCard.CardFaces[2].ManaCost
              ELSE ""

\* C26: mana cost recovery.  For a card record with any number of faces
\* getManaCost returns the card's own cost when that is not empty, else the
\* cost of face 0 when not empty, else the cost of face 1 when that face
\* exists and its cost is not empty, else the empty string, and it never
\* faults.
C26_ManaCostRecovery ==
    manaDone => (pc # "panic" /\ manaCost = RecoveredCost)


\* Values of the current set: the one of the program, the set of three
\* colours, and a set without performance data.
CurrentSetValues == { currentSet, "SNC", "XLN" }

\* deckStrengths as lines 596-632 build it when the current set is set.
StrengthsAt(set) ==
    [deckId \in SeqToSet(getDecks(set)) |->
        deckStrengthOf(poolCards, strengthMapOf(cardStrengthByDeck, deckId))]

\* The three largest of the archetype strengths, largest first.
TopThree(strengths, decks) ==
    SubSeq(sortCandidates([k \in 1 .. Len(decks) |-> strengths[decks[k]]]), 1, 3)

AllRatesNonNegative ==
    \A d \in DOMAIN cardStrengthByDeck : \A n \in DOMAIN cardStrengthByDeck[d] :
        cardStrengthByDeck[d][n] >= 0

\* C28: top-3 indexing safety.  For every value of the current set there are
\* n >= 10 archetypes, and the candidate list of calculateStrength holds 2n
\* values, n of them the zero placeholders, so that its first three elements
\* exist after the sort; with all win rates >= 0 these three are the three
\* largest archetype strengths, and the result is the one they give.
C28_TopThreeInBounds ==
    scored =>
        /\ StrengthsAt(currentSet) = deckStrengths
        /\ AllRatesNonNegative =>
              strength = weightedTopThree(TopThree(deckStrengths, getDecks(currentSet)))
        /\ \A set \in CurrentSetValues :
              LET decks == getDecks(set)
              IN  /\ Len(decks) >= 10
                  /\ Cardinality(SeqToSet(decks)) = Len(decks)
                  /\ \A strengths \in { StrengthsAt(set) } : \A order \in OrdersOf(decks) :
                        LET v == candidates(strengths, order)
                        IN  /\ Len(v) = 2 * Len(decks)
                            /\ Len(v) >= 3
                            /\ Cardinality({ k \in 1 .. Len(v) : v[k] = 0 }) >= Len(decks)
                            /\ AllRatesNonNegative =>
                                  SubSeq(v, 1, 3) = TopThree(strengths, decks)

\* Four archetypes have strengths above 0, three of them different ones: the
\* result is above 0.
C28_Witness ==
    /\ scored
    /\ Cardinality({ d \in DOMAIN deckStrengths : deckStrengths[d] > 0 }) = 4
    /\ \E a, b, c \in DOMAIN deckStrengths :
          /\ deckStrengths[a] > deckStrengths[b]
          /\ deckStrengths[b] > deckStrengths[c]
          /\ deckStrengths[c] > 0
    /\ strength > 0


\* The facts next to "strength".
OtherFacts ==
    { "bombs", "duds", "topcommons", "white", "blue", "black", "red", "green", "gold",
      "colourless", "cmc", "nonbasicland", "commanders", "playsets", "uniqueCards",
      "costUSD" }

\* C29: strength of eliminated pools.  After addFacts the "strength" fact is
\* the result of calculateStrength when the pool is alive, which it is when
\* it was made with less than 11 losses, and 0 when it is eliminated,
\* whatever its cards; every other fact is what it is for the same pool of
\* the other kind.
C29_StrengthOfEliminated ==
    factsDone =>
        /\ isAlive <=> losses < 11
        /\ losses < 11 => facts.strength = strength
        /\ losses >= 11 => facts.strength = 0
        /\ strength = combineTopThree(deckStrengthsOf(poolCards, cardStrengthByDeck),
                                      getDecks(currentSet))
        /\ \A f \in OtherFacts :
              facts[f] = factsOf(poolCards, ~isAlive, strength)[f]

\* An eliminated pool that calculateStrength rates above 0 has strength 0 and
\* a count of red cards.
C29_Witness ==
    /\ factsDone
    /\ losses = 11
    /\ ~isAlive
    /\ strength > 0
    /\ facts.strength = 0
    /\ facts.red > 0

====
